---- MODULE Spec2Model ----
(***************************************************************************)
(* Model of the engine lifecycle manager of the transcribe service:        *)
(* ModelManager (src/server.py), the idle monitor thread monitor_loop and  *)
(* the request handlers that acquire the engine and call generate          *)
(* (src/server.py transcribe_audio, src/transcribe.py                      *)
(* process_transcription).  Every request thread and the monitor thread    *)
(* advance one shared-memory access at a time, so that every interleaving  *)
(* of the unlocked reads and the locked sections is explored.              *)
(***************************************************************************)
EXTENDS Integers, FiniteSets, Sequences, TLC

\* ---------------------------------------------------------------- bounds
NumThreads == 2      \* request handler threads, one request each
MaxTime == 2         \* last value of the wall clock

\* --------------------------------------------------------- configuration
\* config.idle_timeout, in units of the model clock
idle_timeout == 1

Threads == 1..NumThreads
Monitor == 0
Procs == Threads \cup {Monitor}
NoHolder == -1
None == 0
Instances == 1..NumThreads

VARIABLES
    model,             \* manager.model: None or the engine instance
    lock,              \* manager.lock: NoHolder or the process holding it
    last_active_time,  \* manager.last_active_time
    device,            \* manager.device
    now,               \* time.time()
    cuda_available,    \* torch.cuda.is_available()
    pc,                \* position of every process in its code
    asr_model,         \* handler local: value returned by load_model_if_needed
    target_device,     \* load_model_if_needed local
    attempts,          \* AutoModel calls made by the current acquire
    via,               \* path the current acquire took
    made,              \* instance the current acquire constructed, if any
    last_error,        \* kind of the exception the current request caught
    result,            \* status of the last response of each thread
    constructed,       \* number of instances AutoModel has returned so far
    placed,            \* the device each of them was initialized on
    dropped,           \* instances dropped by unload_model
    swept,             \* those of them dropped on behalf of monitor_loop
    cache_enabled,     \* cache_manager.cache_enabled
    cache_days,        \* cache_manager.cache_days
    files,             \* the files under cache_dir: path -> file or NoFile
    op,                \* the cache call each request thread is executing
    sweep              \* the thread running cleanup_expired_cache

vars == <<model, lock, last_active_time, device, now, cuda_available, pc,
          asr_model, target_device, attempts, via, made, last_error, result,
          constructed, placed,
          dropped, swept, cache_enabled, cache_days, files, op, sweep>>

cache == <<cache_enabled, cache_days, files, op, sweep>>
env == <<cuda_available, cache>>
mgr == <<model, lock, last_active_time, device>>
hist == <<constructed, placed, dropped, swept>>
locals == <<asr_model, target_device, attempts, via, made, last_error, result>>

\* ------------------------------------------------------- cache: values
\* An argument that is None or empty: Python's  if bvid and audio_id  takes
\* both as false.
Absent == ""

\* A cache call has not returned yet.
Pending == [kind |-> "pending", path |-> <<>>, name |-> Absent, stamp |-> 0]

\* No cache call in progress.  arg is the extension hint of a media lookup,
\* the source file of a media store or the record of a transcript store;
\* stamp is the record's cached_at (the time of the return once a store
\* has returned); off and ino
\* are the write offset and the file of the descriptor the call has open.
NoOp == [name |-> "none", url |-> Absent, bvid |-> Absent, audio_id |-> Absent,
         arg |-> Absent, stamp |-> 0, key |-> <<>>, path |-> <<>>, off |-> 0,
         ino |-> 0, ret |-> Pending]

\* cleanup_expired_cache is not running.  dir is the directory it is going
\* through, time its current_time, todo what is left of the listing, cur
\* the entry at hand.
NoSweep == [pc |-> "idle", dir |-> "cache", time |-> 0, todo |-> {},
            cur |-> <<>>]

\* The cache directory is empty: no path names a file.
NoFiles == [q \in {} |-> 0]

\* ModelManager.__init__ and module start-up: the monitor thread is started
\* and sleeps; no request is in progress.
Init ==
    /\ model = None
    /\ lock = NoHolder
    /\ last_active_time = 0
    /\ device = "cpu"
    /\ now = 0
    /\ cuda_available \in BOOLEAN
    /\ pc = [p \in Procs |-> IF p = Monitor THEN "sleep" ELSE "idle"]
    /\ asr_model = [t \in Threads |-> None]
    /\ target_device = [t \in Threads |-> "cpu"]
    /\ attempts = [t \in Threads |-> 0]
    /\ via = [t \in Threads |-> "none"]
    /\ made = [t \in Threads |-> None]
    /\ last_error = [t \in Threads |-> "none"]
    /\ result = [t \in Threads |-> "none"]
    /\ constructed = 0
    /\ placed = <<>>
    /\ dropped = {}
    /\ swept = {}
    /\ cache_enabled = TRUE
    /\ cache_days = 1
    /\ files = NoFiles
    /\ op = [t \in Threads |-> NoOp]
    /\ sweep = NoSweep

\* time.time() advances between any two steps.
Tick ==
    /\ now < MaxTime
    /\ now' = now + 1
    /\ UNCHANGED <<mgr, hist, locals, env, pc>>

\* A request arrives and is given a handler thread ("idle" until then,
\* "done" once it has responded); the handler calls
\* manager.load_model_if_needed(), whose first statement is
\* self.last_active_time = time.time()
StartRequest(t) ==
    /\ pc[t] = "idle"
    /\ last_active_time' = now
    /\ pc' = [pc EXCEPT ![t] = "fast_check"]
    /\ UNCHANGED <<model, lock, device, hist, locals, env, now>>

\* load_model_if_needed: the unlocked test  if self.model is None
FastCheck(t) ==
    /\ pc[t] = "fast_check"
    /\ IF model = None
         THEN /\ pc' = [pc EXCEPT ![t] = "wait_lock"]
              /\ via' = via
         ELSE /\ pc' = [pc EXCEPT ![t] = "ret"]
              /\ via' = [via EXCEPT ![t] = "fast"]
    /\ UNCHANGED <<mgr, hist, asr_model, target_device, attempts, made,
                   last_error, result, env, now>>

\* load_model_if_needed: with self.lock (entry)
LoadAcquire(t) ==
    /\ pc[t] = "wait_lock"
    /\ lock = NoHolder
    /\ lock' = t
    /\ pc' = [pc EXCEPT ![t] = "locked_check"]
    /\ UNCHANGED <<model, last_active_time, device, hist, locals,
                   env, now>>

\* Device chosen at the top of the locked section:
\* "cuda" if torch.cuda.is_available() else "cpu"
PreferredDevice == IF cuda_available THEN "cuda" ELSE "cpu"

\* Outcomes of one AutoModel(**model_kwargs) call
InitOutcomes == {"ok", "oom", "other"}

\* RetryOnCpu without the test of the target device.
RetryOnCpu_AnyDevice(outcome, dev) == outcome = "oom"

\* except branch of load_model_if_needed:
\* "out of memory" in str(e).lower() and target_device == "cuda"
RetryOnCpu(outcome, dev) == outcome = "oom" /\ dev = "cuda"

\* LockedCheck without the second test: every caller that saw None before
\* taking the lock initializes.
LockedCheck_NoRecheck(t) ==
    /\ pc[t] = "locked_check"
    /\ target_device' = [target_device EXCEPT ![t] = PreferredDevice]
    /\ pc' = [pc EXCEPT ![t] = "init"]
    /\ UNCHANGED <<mgr, hist, asr_model, attempts, via, made, last_error,
                   result, env, now>>

\* LockedCheck that aims at the device the manager last ran on once an
\* instance has been loaded.
LockedCheck_Sticky(t) ==
    /\ pc[t] = "locked_check"
    /\ IF model = None
         THEN /\ target_device' =
                   [target_device EXCEPT ![t] =
                      IF constructed > 0 THEN device ELSE PreferredDevice]
              /\ pc' = [pc EXCEPT ![t] = "init"]
              /\ UNCHANGED <<lock, via>>
         ELSE /\ lock' = NoHolder
              /\ pc' = [pc EXCEPT ![t] = "ret"]
              /\ via' = [via EXCEPT ![t] = "recheck"]
              /\ UNCHANGED target_device
    /\ UNCHANGED <<model, last_active_time, device, hist, asr_model, attempts,
                   made, last_error, result, env, now>>

\* load_model_if_needed: the second test  if self.model is None  under the
\* lock; leaving the with block releases the lock.
LockedCheck(t) ==
    /\ pc[t] = "locked_check"
    /\ IF model = None
         THEN /\ target_device' = [target_device EXCEPT ![t] = PreferredDevice]
              /\ pc' = [pc EXCEPT ![t] = "init"]
              /\ UNCHANGED <<lock, via>>
         ELSE /\ lock' = NoHolder
              /\ pc' = [pc EXCEPT ![t] = "ret"]
              /\ via' = [via EXCEPT ![t] = "recheck"]
              /\ UNCHANGED target_device
    /\ UNCHANGED <<model, last_active_time, device, hist, asr_model, attempts,
                   made, last_error, result, env, now>>

\* InitPreferred whose failure leaves the lock held.
InitPreferred_KeepsLock(t) ==
    /\ pc[t] = "init"
    /\ attempts' = [attempts EXCEPT ![t] = @ + 1]
    /\ \E outcome \in InitOutcomes :
         IF outcome = "ok"
           THEN /\ constructed' = constructed + 1
                /\ placed' = Append(placed, target_device[t])
                /\ model' = constructed + 1
                /\ made' = [made EXCEPT ![t] = constructed + 1]
                /\ pc' = [pc EXCEPT ![t] = "set_device"]
                /\ UNCHANGED <<lock, last_error>>
           ELSE /\ last_error' = [last_error EXCEPT ![t] = outcome]
                /\ pc' = [pc EXCEPT ![t] =
                             IF RetryOnCpu(outcome, target_device[t])
                               THEN "fallback" ELSE "load_failed"]
                /\ UNCHANGED <<lock, model, constructed, placed, made>>
    /\ UNCHANGED <<last_active_time, device, dropped, swept, asr_model,
                   target_device, via, result, env, now>>

\* load_model_if_needed: self.model = AutoModel(**model_kwargs) in the try
\* block.  On success the new instance is stored; an out-of-memory error on
\* cuda enters the retry; any other error is re-raised, which leaves the
\* with block (releasing the lock) and reaches the handler's except clause.
InitPreferred(t) ==
    /\ pc[t] = "init"
    /\ attempts' = [attempts EXCEPT ![t] = @ + 1]
    /\ \E outcome \in InitOutcomes :
         IF outcome = "ok"
           THEN /\ constructed' = constructed + 1
                /\ placed' = Append(placed, target_device[t])
                /\ model' = constructed + 1
                /\ made' = [made EXCEPT ![t] = constructed + 1]
                /\ pc' = [pc EXCEPT ![t] = "set_device"]
                /\ UNCHANGED <<lock, last_error>>
           ELSE /\ last_error' = [last_error EXCEPT ![t] = outcome]
                /\ IF RetryOnCpu(outcome, target_device[t])
                     THEN /\ pc' = [pc EXCEPT ![t] = "fallback"]
                          /\ UNCHANGED lock
                     ELSE /\ pc' = [pc EXCEPT ![t] = "load_failed"]
                          /\ lock' = NoHolder
                /\ UNCHANGED <<model, constructed, placed, made>>
    /\ UNCHANGED <<last_active_time, device, dropped, swept, asr_model,
                   target_device, via, result, env, now>>

\* SetDevice that returns from the with block without releasing the lock.
SetDevice_KeepsLock(t) ==
    /\ pc[t] = "set_device"
    /\ device' = target_device[t]
    /\ via' = [via EXCEPT ![t] = "init"]
    /\ pc' = [pc EXCEPT ![t] = "ret"]
    /\ UNCHANGED <<model, lock, last_active_time, hist, asr_model,
                   target_device, attempts, made, last_error, result, env, now>>

\* load_model_if_needed: self.device = target_device, then the with block
\* ends and the lock is released.
SetDevice(t) ==
    /\ pc[t] = "set_device"
    /\ device' = target_device[t]
    /\ lock' = NoHolder
    /\ via' = [via EXCEPT ![t] = "init"]
    /\ pc' = [pc EXCEPT ![t] = "ret"]
    /\ UNCHANGED <<model, last_active_time, hist, asr_model, target_device,
                   attempts, made, last_error, result, env, now>>

\* InitFallback that goes round again when the retry fails.
InitFallback_RetriesAgain(t) ==
    /\ pc[t] = "fallback"
    /\ attempts' = [attempts EXCEPT ![t] = @ + 1]
    /\ \E outcome \in InitOutcomes :
         IF outcome = "ok"
           THEN /\ constructed' = constructed + 1
                /\ placed' = Append(placed, "cpu")
                /\ model' = constructed + 1
                /\ made' = [made EXCEPT ![t] = constructed + 1]
                /\ pc' = [pc EXCEPT ![t] = "set_cpu"]
                /\ UNCHANGED <<lock, last_error>>
           ELSE /\ last_error' = [last_error EXCEPT ![t] = outcome]
                /\ pc' = [pc EXCEPT ![t] = IF attempts[t] < 2 THEN "fallback"
                                                             ELSE "load_failed"]
                /\ lock' = IF attempts[t] < 2 THEN lock ELSE NoHolder
                /\ UNCHANGED <<model, constructed, placed, made>>
    /\ UNCHANGED <<last_active_time, device, dropped, swept, asr_model,
                   target_device, via, result, env, now>>

\* load_model_if_needed: the retry  self.model = AutoModel(cpu kwargs)  in
\* the except branch.  An error raised here propagates out of the with
\* block, which releases the lock.
InitFallback(t) ==
    /\ pc[t] = "fallback"
    /\ attempts' = [attempts EXCEPT ![t] = @ + 1]
    /\ \E outcome \in InitOutcomes :
         IF outcome = "ok"
           THEN /\ constructed' = constructed + 1
                /\ placed' = Append(placed, "cpu")
                /\ model' = constructed + 1
                /\ made' = [made EXCEPT ![t] = constructed + 1]
                /\ pc' = [pc EXCEPT ![t] = "set_cpu"]
                /\ UNCHANGED <<lock, last_error>>
           ELSE /\ last_error' = [last_error EXCEPT ![t] = outcome]
                /\ lock' = NoHolder
                /\ pc' = [pc EXCEPT ![t] = "load_failed"]
                /\ UNCHANGED <<model, constructed, placed, made>>
    /\ UNCHANGED <<last_active_time, device, dropped, swept, asr_model,
                   target_device, via, result, env, now>>

\* SetCpu that records the device first aimed at.
SetCpu_KeepsTarget(t) ==
    /\ pc[t] = "set_cpu"
    /\ device' = target_device[t]
    /\ lock' = NoHolder
    /\ via' = [via EXCEPT ![t] = "fallback"]
    /\ pc' = [pc EXCEPT ![t] = "ret"]
    /\ UNCHANGED <<model, last_active_time, hist, asr_model, target_device,
                   attempts, made, last_error, result, env, now>>

\* load_model_if_needed: self.device = "cpu" after the retry, then the lock
\* is released.
SetCpu(t) ==
    /\ pc[t] = "set_cpu"
    /\ device' = "cpu"
    /\ lock' = NoHolder
    /\ via' = [via EXCEPT ![t] = "fallback"]
    /\ pc' = [pc EXCEPT ![t] = "ret"]
    /\ UNCHANGED <<model, last_active_time, hist, asr_model, target_device,
                   attempts, made, last_error, result, env, now>>

\* ReturnModel whose caller wraps generate in  with manager.lock.
ReturnModel_UnderLock(t) ==
    /\ pc[t] = "ret"
    /\ lock = NoHolder
    /\ lock' = t
    /\ asr_model' = [asr_model EXCEPT ![t] = model]
    /\ attempts' = [attempts EXCEPT ![t] = 0]
    /\ via' = [via EXCEPT ![t] = "none"]
    /\ made' = [made EXCEPT ![t] = None]
    /\ last_error' = [last_error EXCEPT ![t] = "none"]
    /\ target_device' = [target_device EXCEPT ![t] = "cpu"]
    /\ pc' = [pc EXCEPT ![t] = "generating"]
    /\ UNCHANGED <<model, last_active_time, device, hist, result,
                   env, now>>

\* load_model_if_needed: return self.model  (read outside the lock); the
\* handler stores it in asr_model and goes on to asr_model.generate(...)
ReturnModel(t) ==
    /\ pc[t] = "ret"
    /\ asr_model' = [asr_model EXCEPT ![t] = model]
    /\ attempts' = [attempts EXCEPT ![t] = 0]
    /\ via' = [via EXCEPT ![t] = "none"]
    /\ made' = [made EXCEPT ![t] = None]
    /\ last_error' = [last_error EXCEPT ![t] = "none"]
    /\ target_device' = [target_device EXCEPT ![t] = "cpu"]
    /\ pc' = [pc EXCEPT ![t] = "generating"]
    /\ UNCHANGED <<mgr, hist, result, env, now>>

\* Handler: the except clause around load_model_if_needed returns the
\* "Model load failed" response; generate is not reached.
LoadFailed(t) ==
    /\ pc[t] = "load_failed"
    /\ result' = [result EXCEPT ![t] = "load_failed"]
    /\ attempts' = [attempts EXCEPT ![t] = 0]
    /\ via' = [via EXCEPT ![t] = "none"]
    /\ made' = [made EXCEPT ![t] = None]
    /\ last_error' = [last_error EXCEPT ![t] = "none"]
    /\ target_device' = [target_device EXCEPT ![t] = "cpu"]
    /\ pc' = [pc EXCEPT ![t] = "done"]
    /\ UNCHANGED <<mgr, hist, asr_model, env, now>>

\* Outcomes of asr_model.generate(...): calling it on None raises
\* AttributeError, which is an error other than out of memory.
GenerateOutcomes(h) == IF h = None THEN {"other"} ELSE {"ok", "oom", "other"}

\* Generate whose handler unloads the engine after any error.
Generate_UnloadsOnAnyError(t) ==
    /\ pc[t] = "generating"
    /\ \E outcome \in GenerateOutcomes(asr_model[t]) :
         IF outcome = "ok"
           THEN /\ pc' = [pc EXCEPT ![t] = "refresh"]
                /\ UNCHANGED <<asr_model, last_error, result>>
           ELSE /\ pc' = [pc EXCEPT ![t] = "unload_wait"]
                /\ last_error' = [last_error EXCEPT ![t] = outcome]
                /\ UNCHANGED <<asr_model, result>>
    /\ UNCHANGED <<mgr, hist, target_device, attempts, via, made, env,
                   now>>

\* Handler: asr_model.generate(...) completes or raises.  An error whose
\* message has "out of memory" makes the handler call manager.unload_model();
\* any other error goes straight to the error response.
Generate(t) ==
    /\ pc[t] = "generating"
    /\ \E outcome \in GenerateOutcomes(asr_model[t]) :
         CASE outcome = "ok" ->
                /\ pc' = [pc EXCEPT ![t] = "refresh"]
                /\ UNCHANGED <<asr_model, last_error, result>>
           [] outcome = "oom" ->
                /\ pc' = [pc EXCEPT ![t] = "unload_wait"]
                /\ last_error' = [last_error EXCEPT ![t] = "oom"]
                /\ UNCHANGED <<asr_model, result>>
           [] OTHER ->
                /\ pc' = [pc EXCEPT ![t] = "error_return"]
                /\ last_error' = [last_error EXCEPT ![t] = "other"]
                /\ UNCHANGED <<asr_model, result>>
    /\ UNCHANGED <<mgr, hist, target_device, attempts, via, made, env,
                   now>>

\* Handler: manager.last_active_time = time.time() after generate, then the
\* success response is returned.
Refresh(t) ==
    /\ pc[t] = "refresh"
    /\ last_active_time' = now
    /\ result' = [result EXCEPT ![t] = "success"]
    /\ asr_model' = [asr_model EXCEPT ![t] = None]
    /\ pc' = [pc EXCEPT ![t] = "done"]
    /\ UNCHANGED <<model, lock, device, hist, target_device, attempts, via, made,
                   last_error, env, now>>

\* UnloadAcquire that enters the section without taking the lock.
UnloadAcquire_NoLock(p) ==
    /\ pc[p] = "unload_wait"
    /\ pc' = [pc EXCEPT ![p] = "unloading"]
    /\ UNCHANGED <<mgr, hist, locals, env, now>>

\* unload_model: with self.lock (entry), by a handler or by the monitor.
UnloadAcquire(p) ==
    /\ pc[p] = "unload_wait"
    /\ lock = NoHolder
    /\ lock' = p
    /\ pc' = [pc EXCEPT ![p] = "unloading"]
    /\ UNCHANGED <<model, last_active_time, device, hist, locals,
                   env, now>>

\* UnloadDrop that collects garbage but keeps the field.
UnloadDrop_KeepsModel(p) ==
    /\ pc[p] = "unloading"
    /\ lock' = NoHolder
    /\ pc' = [pc EXCEPT ![p] = IF p = Monitor THEN "sleep" ELSE "error_return"]
    /\ UNCHANGED <<model, last_active_time, device, hist, locals,
                   env, now>>

\* UnloadDrop without the test  if self.model is not None.
UnloadDrop_Unconditional(p) ==
    /\ pc[p] = "unloading"
    /\ model' = None
    /\ dropped' = dropped \cup {model}
    /\ swept' = IF p = Monitor THEN swept \cup {model} ELSE swept
    /\ lock' = NoHolder
    /\ pc' = [pc EXCEPT ![p] = IF p = Monitor THEN "sleep" ELSE "error_return"]
    /\ UNCHANGED <<last_active_time, device, constructed, placed,
                   locals,
                   env, now>>

\* unload_model: if self.model is not None: del self.model; self.model = None;
\* gc.collect(); empty_cache().  The with block ends and the lock is
\* released.  A handler continues to its error response, the monitor goes
\* back to sleep.
UnloadDrop(p) ==
    /\ pc[p] = "unloading"
    /\ IF model # None
         THEN /\ model' = None
              /\ dropped' = dropped \cup {model}
              /\ swept' = IF p = Monitor THEN swept \cup {model} ELSE swept
         ELSE UNCHANGED <<model, dropped, swept>>
    /\ lock' = NoHolder
    /\ pc' = [pc EXCEPT ![p] = IF p = Monitor THEN "sleep" ELSE "error_return"]
    /\ UNCHANGED <<last_active_time, device, constructed, placed,
                   locals,
                   env, now>>

\* ErrorReturn that refreshes last_active_time as the success path does.
ErrorReturn_Refreshes(t) ==
    /\ pc[t] = "error_return"
    /\ last_active_time' = now
    /\ result' = [result EXCEPT ![t] = "error"]
    /\ asr_model' = [asr_model EXCEPT ![t] = None]
    /\ last_error' = [last_error EXCEPT ![t] = "none"]
    /\ pc' = [pc EXCEPT ![t] = "done"]
    /\ UNCHANGED <<model, lock, device, hist, target_device, attempts, via,
                   made, env, now>>

\* Handler: the error response of the except clause around generate,
\* reached after the forced unload or directly; the handler's locals end
\* with it.
ErrorReturn(t) ==
    /\ pc[t] = "error_return"
    /\ result' = [result EXCEPT ![t] = "error"]
    /\ asr_model' = [asr_model EXCEPT ![t] = None]
    /\ last_error' = [last_error EXCEPT ![t] = "none"]
    /\ pc' = [pc EXCEPT ![t] = "done"]
    /\ UNCHANGED <<mgr, hist, target_device, attempts, via, made,
                   env, now>>

\* monitor_loop: time.sleep(check_interval) ends;  if manager.model is not None
MonitorWake ==
    /\ pc[Monitor] = "sleep"
    /\ pc' = [pc EXCEPT ![Monitor] = IF model # None THEN "check_idle" ELSE "sleep"]
    /\ UNCHANGED <<mgr, hist, locals, env, now>>

\* monitor_loop: time.time() - manager.last_active_time > config.idle_timeout
IdleExpired == now - last_active_time > idle_timeout

\* monitor_loop: the idle test; when it holds manager.unload_model() is called.
MonitorCheckIdle ==
    /\ pc[Monitor] = "check_idle"
    /\ pc' = [pc EXCEPT ![Monitor] = IF IdleExpired THEN "unload_wait" ELSE "sleep"]
    /\ UNCHANGED <<mgr, hist, locals, env, now>>

Next ==
    \/ Tick
    \/ \E t \in Threads : StartRequest(t)
    \/ \E t \in Threads : FastCheck(t)
    \/ \E t \in Threads : LoadAcquire(t)
    \/ \E t \in Threads : LockedCheck(t)
    \/ \E t \in Threads : InitPreferred(t)
    \/ \E t \in Threads : SetDevice(t)
    \/ \E t \in Threads : InitFallback(t)
    \/ \E t \in Threads : SetCpu(t)
    \/ \E t \in Threads : ReturnModel(t)
    \/ \E t \in Threads : LoadFailed(t)
    \/ \E t \in Threads : Generate(t)
    \/ \E t \in Threads : Refresh(t)
    \/ \E p \in Procs : UnloadAcquire(p)
    \/ \E p \in Procs : UnloadDrop(p)
    \/ \E t \in Threads : ErrorReturn(t)
    \/ MonitorWake
    \/ MonitorCheckIdle

Spec == Init /\ [][Next]_vars

\* A step of a request thread that is inside a request.
Advance(t) ==
    \/ FastCheck(t) \/ LoadAcquire(t) \/ LockedCheck(t) \/ InitPreferred(t)
    \/ SetDevice(t) \/ InitFallback(t) \/ SetCpu(t) \/ ReturnModel(t)
    \/ LoadFailed(t) \/ Generate(t) \/ Refresh(t) \/ UnloadAcquire(t)
    \/ UnloadDrop(t) \/ ErrorReturn(t)

\* A step of the monitor thread.
MonitorStep ==
    \/ MonitorWake \/ MonitorCheckIdle
    \/ UnloadAcquire(Monitor) \/ UnloadDrop(Monitor)

\* Threads are scheduled fairly: the daemon thread started at import keeps
\* running its loop, and a request that was started keeps running (every
\* AutoModel and generate call ends).  Requests need not keep arriving and
\* the clock is not forced to advance.
FairSpec ==
    /\ Spec
    /\ WF_vars(MonitorStep)
    /\ \A t \in Threads : WF_vars(Advance(t))

\* ---------------------------------------------------------- cache keys
\* Identity inputs a caller may pass: a raw locator, a primary id (bvid) and
\* a secondary id (audio id), each possibly absent.
Urls == {Absent, "u", "uB"}
Bvids == {Absent, "B", "C"}
AudioIds == {Absent, "7"}

\* hashlib.md5(content.encode()).hexdigest(), taken to be collision-free:
\* the digest stands for the string hashed.
md5(content) == <<"md5", content>>

\* get_cache_key without the compatibility branch: a raw locator is hashed
\* alone even when a primary id comes with it.
get_cache_key_IgnoresPrimary(url, bvid, audio_id) ==
    md5(IF bvid # Absent /\ audio_id # Absent THEN bvid \o "_" \o audio_id
        ELSE IF url # Absent THEN url
        ELSE "")

\* get_cache_key that hashes a primary id that comes alone.
get_cache_key_ByPrimary(url, bvid, audio_id) ==
    md5(IF bvid # Absent /\ audio_id # Absent THEN bvid \o "_" \o audio_id
        ELSE IF url # Absent /\ bvid # Absent THEN url \o bvid
        ELSE IF url # Absent THEN url
        ELSE bvid)

\* CacheManager._get_cache_key
get_cache_key(url, bvid, audio_id) ==
    md5(IF bvid # Absent /\ audio_id # Absent THEN bvid \o "_" \o audio_id
        ELSE IF url # Absent /\ bvid # Absent THEN url \o bvid
        ELSE IF url # Absent THEN url
        ELSE "")

\* get_cached_file: the key it looks up
get_cached_file_key(url, bvid, audio_id) ==
    IF bvid # Absent /\ audio_id # Absent
      THEN get_cache_key(Absent, bvid, audio_id)
      ELSE get_cache_key(url, bvid, Absent)

\* save_to_cache: the key it stores under
save_to_cache_key(url, bvid, audio_id) ==
    IF bvid # Absent /\ audio_id # Absent
      THEN get_cache_key(Absent, bvid, audio_id)
      ELSE get_cache_key(url, bvid, Absent)

\* get_cached_transcript: the key it looks up
get_cached_transcript_key(url, bvid, audio_id) ==
    IF bvid # Absent /\ audio_id # Absent
      THEN get_cache_key(Absent, bvid, audio_id)
      ELSE get_cache_key(url, bvid, Absent)

\* save_transcript_to_cache that keys every record by the locator alone.
save_transcript_to_cache_key_ByUrl(url, bvid, audio_id) ==
    get_cache_key(url, Absent, Absent)

\* save_transcript_to_cache: the key it stores under
save_transcript_to_cache_key(url, bvid, audio_id) ==
    IF bvid # Absent /\ audio_id # Absent
      THEN get_cache_key(Absent, bvid, audio_id)
      ELSE get_cache_key(url, bvid, Absent)

CacheCalls == {"get_cached_file", "save_to_cache", "get_cached_transcript",
               "save_transcript_to_cache"}

\* The key the named cache call derives from its identity arguments.
KeyOf(name, url, bvid, audio_id) ==
    CASE name = "get_cached_file" -> get_cached_file_key(url, bvid, audio_id)
      [] name = "save_to_cache" -> save_to_cache_key(url, bvid, audio_id)
      [] name = "get_cached_transcript" ->
             get_cached_transcript_key(url, bvid, audio_id)
      [] OTHER -> save_transcript_to_cache_key(url, bvid, audio_id)

\* A caller derives the key of one cache call from one identity tuple.
DeriveKey(t) ==
    /\ pc[t] = "idle"
    /\ \E name \in CacheCalls, url \in Urls, bvid \in Bvids,
          audio_id \in AudioIds :
         op' = [op EXCEPT ![t] =
                  [NoOp EXCEPT !.name = name, !.url = url, !.bvid = bvid,
                               !.audio_id = audio_id,
                               !.key = KeyOf(name, url, bvid, audio_id)]]
    /\ pc' = [pc EXCEPT ![t] = "done"]
    /\ UNCHANGED <<mgr, hist, locals, cuda_available, now, cache_enabled,
                   cache_days, files, sweep>>

KeyNext == \E t \in Threads : DeriveKey(t)

\* The key derivation applied to every identity tuple by every cache call.
KeySpec == Init /\ [][KeyNext]_vars

\* --------------------------------------------------------- cache store
\* 24 * 3600, in units of the model clock
SecondsPerDay == 2

\* self.cache_days * 24 * 3600
TTL == cache_days * SecondsPerDay

\* Identity tuples of the requests that use the cache.
CacheIdents == {<<"u", "B", "7">>}

\* Extension hints of media lookups.
ExtHints == {".mp3", ".m4a"}

\* Downloaded files handed to save_to_cache, and Path(file_path).suffix
Sources == {"b.m4a", "c"}
Suffix(src) == IF src = "b.m4a" THEN ".m4a" ELSE ""

\* Transcript records handed to save_transcript_to_cache; "empty" is {}.
Records == {"short", "long", "empty"}

\* Length of a source file or of a serialized record, in write chunks.
Size(name) == IF name = "long" THEN 2 ELSE 1

\* CacheManager._get_cache_path, and the path of a transcript record
get_cache_path(key, ext) == <<"cache", key, ext>>
transcript_path(key) == <<"transcripts", key, ".json">>

\* The path of a downloaded file in the download directory, which is not
\* the cache directory.
SourcePath(src) == <<"tmp", src, Suffix(src)>>

\* Content of a file that holds all of one payload: chunk i of payload
\* <<name, stamp>> is <<name, stamp, i>>.
Content(name, stamp) == [i \in 1..Size(name) |-> <<name, stamp, i>>]

\* A file's bytes are exactly one complete payload.
Whole(data) ==
    /\ data # <<>>
    /\ data = Content(data[1][1], data[1][2])

\* Bytes left by a write of one chunk at offset off: the chunk replaces what
\* was there, and a write past the end leaves a hole of zero bytes.
WriteAt(data, off, chunk) ==
    [i \in 1..(IF Len(data) > off + 1 THEN Len(data) ELSE off + 1) |->
        IF i = off + 1 THEN chunk
        ELSE IF i <= Len(data) THEN data[i]
        ELSE <<"hole", 0, 0>>]

exists(path) == path \in DOMAIN files
unlink(path) == [q \in DOMAIN files \ {path} |-> files[q]]
put(path, file) == [q \in DOMAIN files \cup {path} |->
                      IF q = path THEN file ELSE files[q]]

\* time.time() - cache_path.stat().st_mtime
file_age(path) == now - files[path].mtime

\* Return values of the cache calls.
ReturnNone == [Pending EXCEPT !.kind = "None"]
ReturnPath(path) == [Pending EXCEPT !.kind = "path", !.path = path]
ReturnSource(src) == [Pending EXCEPT !.kind = "source", !.name = src]
ReturnRecord(name, stamp) ==
    [Pending EXCEPT !.kind = "record", !.name = name, !.stamp = stamp]
Raise(exc) == [Pending EXCEPT !.kind = "raised", !.name = exc]

\* save_transcript_to_cache returns None whether it wrote the record (it
\* logs that the record is cached) or caught a failure (it logs the error).
Stored == [Pending EXCEPT !.kind = "None", !.name = "cached"]
StoreFailed == [Pending EXCEPT !.kind = "None", !.name = "failed"]

\* What no cache call changes.
manager == <<mgr, hist, locals, cuda_available, now>>

\* What is left of a call record when the call has returned r: the call's
\* name, primary id, arg and path, the value returned and, for a store, the
\* time of the return in stamp.
Finished(call, r) ==
    [NoOp EXCEPT !.name = call.name, !.bvid = call.bvid, !.arg = call.arg,
                 !.path = call.path,
                 !.ret = r,
                 !.stamp = IF call.name \in {"save_to_cache",
                                              "save_transcript_to_cache"}
                             THEN now ELSE 0]

\* The call of thread t returns value r.
Return(t, r) ==
    /\ op' = [op EXCEPT ![t] = Finished(op[t], r)]
    /\ pc' = [pc EXCEPT ![t] = "done"]

\* The call record of a cache call that starts: its arguments, key and path.
Called(name, id, arg, key, path) ==
    [NoOp EXCEPT !.name = name, !.url = id[1], !.bvid = id[2],
                 !.audio_id = id[3], !.arg = arg, !.key = key, !.path = path]

\* get_cached_file: not self.cache_enabled returns None; else the key and
\* path are computed and cache_path.exists() is tested.
GetFileCall(t) ==
    /\ pc[t] = "idle"
    /\ \E id \in CacheIdents, ext \in ExtHints :
         LET key == get_cached_file_key(id[1], id[2], id[3])
             path == get_cache_path(key, ext)
             call == Called("get_cached_file", id, ext, key, path)
         IN  IF cache_enabled /\ exists(path)
               THEN /\ op' = [op EXCEPT ![t] = call]
                    /\ pc' = [pc EXCEPT ![t] = "gf_stat"]
               ELSE /\ op' = [op EXCEPT ![t] = Finished(call, ReturnNone)]
                    /\ pc' = [pc EXCEPT ![t] = "done"]
    /\ UNCHANGED <<manager, cache_enabled, cache_days, files, sweep>>

\* GetFileStat whose hit refreshes the modification time of the entry.
GetFileStat_Touches(t) ==
    /\ pc[t] = "gf_stat"
    /\ IF ~exists(op[t].path)
         THEN /\ Return(t, Raise("FileNotFoundError"))
              /\ files' = files
         ELSE IF file_age(op[t].path) <= TTL
           THEN /\ Return(t, ReturnPath(op[t].path))
                /\ files' = put(op[t].path,
                                [files[op[t].path] EXCEPT !.mtime = now])
           ELSE /\ pc' = [pc EXCEPT ![t] = "gf_unlink"]
                /\ op' = op
                /\ files' = files
    /\ UNCHANGED <<manager, cache_enabled, cache_days, sweep>>

\* get_cached_file: cache_path.stat().st_mtime, which raises when the file
\* is gone, and the test  file_age <= self.cache_days * 24 * 3600
GetFileStat(t) ==
    /\ pc[t] = "gf_stat"
    /\ IF ~exists(op[t].path)
         THEN Return(t, Raise("FileNotFoundError"))
         ELSE IF file_age(op[t].path) <= TTL
           THEN Return(t, ReturnPath(op[t].path))
           ELSE /\ pc' = [pc EXCEPT ![t] = "gf_unlink"]
                /\ op' = op
    /\ UNCHANGED <<manager, cache_enabled, cache_days, files, sweep>>

\* get_cached_file: cache_path.unlink() of the expired file, which raises
\* when the file is gone; then return None
GetFileUnlink(t) ==
    /\ pc[t] = "gf_unlink"
    /\ IF exists(op[t].path)
         THEN /\ files' = unlink(op[t].path)
              /\ Return(t, ReturnNone)
         ELSE /\ files' = files
              /\ Return(t, Raise("FileNotFoundError"))
    /\ UNCHANGED <<manager, cache_enabled, cache_days, sweep>>

\* get_cached_transcript, called with one of the identity tuples ids: not
\* self.cache_enabled returns None; else the key and path are computed and
\* cache_path.exists() is tested.
GetTranscriptCallWith(t, ids) ==
    /\ pc[t] = "idle"
    /\ \E id \in ids :
         LET key == get_cached_transcript_key(id[1], id[2], id[3])
             path == transcript_path(key)
             call == Called("get_cached_transcript", id, Absent, key, path)
         IN  IF cache_enabled /\ exists(path)
               THEN /\ op' = [op EXCEPT ![t] = call]
                    /\ pc' = [pc EXCEPT ![t] = "gt_stat"]
               ELSE /\ op' = [op EXCEPT ![t] = Finished(call, ReturnNone)]
                    /\ pc' = [pc EXCEPT ![t] = "done"]
    /\ UNCHANGED <<manager, cache_enabled, cache_days, files, sweep>>

\* get_cached_transcript as the requests of one video call it.
GetTranscriptCall(t) == GetTranscriptCallWith(t, CacheIdents)

\* get_cached_transcript: cache_path.stat().st_mtime, which raises when the
\* file is gone, and the test  file_age <= self.cache_days * 24 * 3600
GetTranscriptStat(t) ==
    /\ pc[t] = "gt_stat"
    /\ IF ~exists(op[t].path)
         THEN Return(t, Raise("FileNotFoundError"))
         ELSE /\ pc' = [pc EXCEPT ![t] = IF file_age(op[t].path) <= TTL
                                           THEN "gt_load" ELSE "gt_unlink"]
              /\ op' = op
    /\ UNCHANGED <<manager, cache_enabled, cache_days, files, sweep>>

\* get_cached_transcript: open(cache_path) and json.load(f) in the try
\* block.  A file that is gone or does not hold one complete record raises
\* into  except Exception , which goes on to cache_path.unlink().
GetTranscriptLoad(t) ==
    /\ pc[t] = "gt_load"
    /\ IF exists(op[t].path) /\ Whole(files[op[t].path].data)
         THEN LET data == files[op[t].path].data
              IN  Return(t, ReturnRecord(data[1][1], data[1][2]))
         ELSE /\ pc' = [pc EXCEPT ![t] = "gt_discard"]
              /\ op' = op
    /\ UNCHANGED <<manager, cache_enabled, cache_days, files, sweep>>

\* get_cached_transcript: cache_path.unlink() of the expired file, which
\* raises when the file is gone; then return None
GetTranscriptUnlink(t) ==
    /\ pc[t] = "gt_unlink"
    /\ IF exists(op[t].path)
         THEN /\ files' = unlink(op[t].path)
              /\ Return(t, ReturnNone)
         ELSE /\ files' = files
              /\ Return(t, Raise("FileNotFoundError"))
    /\ UNCHANGED <<manager, cache_enabled, cache_days, sweep>>

\* get_cached_transcript whose except branch returns None without
\* cache_path.unlink().
GetTranscriptDiscard_KeepsFile(t) ==
    /\ pc[t] = "gt_discard"
    /\ files' = files
    /\ Return(t, ReturnNone)
    /\ UNCHANGED <<manager, cache_enabled, cache_days, sweep>>

\* get_cached_transcript: cache_path.unlink() in the except clause, which
\* raises out of the handler when the file is gone; then return None
GetTranscriptDiscard(t) ==
    /\ pc[t] = "gt_discard"
    /\ IF exists(op[t].path)
         THEN /\ files' = unlink(op[t].path)
              /\ Return(t, ReturnNone)
         ELSE /\ files' = files
              /\ Return(t, Raise("FileNotFoundError"))
    /\ UNCHANGED <<manager, cache_enabled, cache_days, sweep>>

\* Outcomes of an open for writing or of a write: it succeeds or raises
\* (OSError: disk full, permissions, an unserializable value in json.dump).
IoOutcomes == {"ok", "fail"}

\* open(path, "w") / open(dst, "wb") by thread t: an existing file is
\* truncated, a missing one is created.
Truncated(path, t) ==
    put(path, [mtime |-> now, data |-> <<>>,
               ino |-> IF exists(path) THEN files[path].ino ELSE t])

\* The files after the holder of a descriptor on file ino of path writes a
\* chunk at its offset; a write to an unlinked file shows under no path.
Written(path, ino, off, chunk) ==
    IF exists(path) /\ files[path].ino = ino
      THEN put(path, [files[path] EXCEPT !.mtime = now,
                                        !.data = WriteAt(@, off, chunk)])
      ELSE files

\* save_to_cache without its test of self.cache_enabled.
SaveFileCall_IgnoresEnabled(t) ==
    /\ pc[t] = "idle"
    /\ \E id \in CacheIdents, src \in Sources, outcome \in IoOutcomes :
         LET ext == IF Suffix(src) = "" THEN ".mp3" ELSE Suffix(src)
             key == save_to_cache_key(id[1], id[2], id[3])
             path == get_cache_path(key, ext)
             call == Called("save_to_cache", id, src, key, path)
         IN  IF outcome = "ok" /\ exists(SourcePath(src))
               THEN /\ files' = Truncated(path, t)
                    /\ op' = [op EXCEPT ![t] =
                                [call EXCEPT !.ino = files'[path].ino]]
                    /\ pc' = [pc EXCEPT ![t] = "sf_write"]
               ELSE /\ files' = files
                    /\ op' = [op EXCEPT ![t] =
                                Finished(call, ReturnSource(src))]
                    /\ pc' = [pc EXCEPT ![t] = "done"]
    /\ UNCHANGED <<manager, cache_enabled, cache_days, sweep>>

\* save_to_cache: not self.cache_enabled returns file_path; else the
\* extension (".mp3" when the source has none), key and path are computed
\* and shutil.copy2 opens the source for reading and the destination for
\* writing.  Whatever copy2 raises is caught and file_path is returned.
SaveFileCall(t) ==
    /\ pc[t] = "idle"
    /\ \E id \in CacheIdents, src \in Sources, outcome \in IoOutcomes :
         LET ext == IF Suffix(src) = "" THEN ".mp3" ELSE Suffix(src)
             key == save_to_cache_key(id[1], id[2], id[3])
             path == get_cache_path(key, ext)
             call == Called("save_to_cache", id, src, key, path)
         IN  IF cache_enabled /\ outcome = "ok" /\ exists(SourcePath(src))
               THEN /\ files' = Truncated(path, t)
                    /\ op' = [op EXCEPT ![t] =
                                [call EXCEPT !.ino = files'[path].ino]]
                    /\ pc' = [pc EXCEPT ![t] = "sf_write"]
               ELSE /\ files' = files
                    /\ op' = [op EXCEPT ![t] =
                                Finished(call, ReturnSource(src))]
                    /\ pc' = [pc EXCEPT ![t] = "done"]
    /\ UNCHANGED <<manager, cache_enabled, cache_days, sweep>>

\* save_to_cache whose handler lets a failed write through to the caller.
SaveFileWrite_Raises(t) ==
    /\ pc[t] = "sf_write"
    /\ \E outcome \in IoOutcomes :
         IF outcome = "ok"
           THEN /\ files' = Written(op[t].path, op[t].ino, op[t].off,
                                    <<op[t].arg, op[t].stamp, op[t].off + 1>>)
                /\ op' = [op EXCEPT ![t].off = @ + 1]
                /\ pc' = [pc EXCEPT ![t] = IF op[t].off + 1 = Size(op[t].arg)
                                             THEN "sf_copystat" ELSE "sf_write"]
           ELSE /\ files' = files
                /\ Return(t, Raise("OSError"))
    /\ UNCHANGED <<manager, cache_enabled, cache_days, sweep>>

\* save_to_cache: shutil.copy2 writes the next chunk of the source; a
\* failure is caught and file_path is returned, the destination staying as
\* it is.
SaveFileWrite(t) ==
    /\ pc[t] = "sf_write"
    /\ \E outcome \in IoOutcomes :
         IF outcome = "ok"
           THEN /\ files' = Written(op[t].path, op[t].ino, op[t].off,
                                    <<op[t].arg, 0, op[t].off + 1>>)
                /\ op' = [op EXCEPT ![t].off = @ + 1]
                /\ pc' = [pc EXCEPT ![t] = IF op[t].off + 1 = Size(op[t].arg)
                                             THEN "sf_copystat" ELSE "sf_write"]
           ELSE /\ files' = files
                /\ Return(t, ReturnSource(op[t].arg))
    /\ UNCHANGED <<manager, cache_enabled, cache_days, sweep>>

\* save_to_cache that moves the file into the cache (shutil.move): the
\* source is removed once the copy is complete.
SaveFileCopystat_Moves(t) ==
    /\ pc[t] = "sf_copystat"
    /\ IF exists(op[t].path) /\ exists(SourcePath(op[t].arg))
         THEN /\ files' =
                   [q \in DOMAIN files \ {SourcePath(op[t].arg)} |->
                      IF q = op[t].path
                        THEN [files[q] EXCEPT
                                !.mtime = files[SourcePath(op[t].arg)].mtime]
                        ELSE files[q]]
              /\ Return(t, ReturnPath(op[t].path))
         ELSE /\ files' = files
              /\ Return(t, ReturnSource(op[t].arg))
    /\ UNCHANGED <<manager, cache_enabled, cache_days, sweep>>

\* save_to_cache: shutil.copy2 ends with copystat, which sets the mtime of
\* the file the path names to the source's mtime and raises when either
\* path names no file; then the cache path is returned.
SaveFileCopystat(t) ==
    /\ pc[t] = "sf_copystat"
    /\ IF exists(op[t].path) /\ exists(SourcePath(op[t].arg))
         THEN /\ files' = put(op[t].path,
                              [files[op[t].path] EXCEPT
                                 !.mtime = files[SourcePath(op[t].arg)].mtime])
              /\ Return(t, ReturnPath(op[t].path))
         ELSE /\ files' = files
              /\ Return(t, ReturnSource(op[t].arg))
    /\ UNCHANGED <<manager, cache_enabled, cache_days, sweep>>

\* save_transcript_to_cache: not self.cache_enabled or not transcript_data
\* returns; else the key and path are computed, cached_at is set to
\* time.time() and open(cache_path, "w") truncates or creates the file.
\* Whatever is raised is caught and the call returns.  The call is made
\* with one of the identity tuples ids.
SaveTranscriptCallWith(t, ids) ==
    /\ pc[t] = "idle"
    /\ \E id \in ids, rec \in Records, outcome \in IoOutcomes :
         LET key == save_transcript_to_cache_key(id[1], id[2], id[3])
             path == transcript_path(key)
             call == [Called("save_transcript_to_cache", id, rec, key, path)
                        EXCEPT !.stamp = now]
         IN  IF cache_enabled /\ rec # "empty" /\ outcome = "ok"
               THEN /\ files' = Truncated(path, t)
                    /\ op' = [op EXCEPT ![t] =
                                [call EXCEPT !.ino = files'[path].ino]]
                    /\ pc' = [pc EXCEPT ![t] = "wt_write"]
               ELSE /\ files' = files
                    /\ op' = [op EXCEPT ![t] =
                                Finished(call,
                                         IF cache_enabled /\ rec # "empty"
                                           THEN StoreFailed ELSE ReturnNone)]
                    /\ pc' = [pc EXCEPT ![t] = "done"]
    /\ UNCHANGED <<manager, cache_enabled, cache_days, sweep>>

\* save_transcript_to_cache as the requests of one video call it.
SaveTranscriptCall(t) == SaveTranscriptCallWith(t, CacheIdents)

\* SaveTranscriptWrite that closes the file after the first chunk.
SaveTranscriptWrite_FirstChunkOnly(t) ==
    /\ pc[t] = "wt_write"
    /\ files' = Written(op[t].path, op[t].ino, op[t].off,
                        <<op[t].arg, op[t].stamp, op[t].off + 1>>)
    /\ Return(t, Stored)
    /\ UNCHANGED <<manager, cache_enabled, cache_days, sweep>>

\* save_transcript_to_cache whose handler lets a failed write through to
\* the caller.
SaveTranscriptWrite_Raises(t) ==
    /\ pc[t] = "wt_write"
    /\ \E outcome \in IoOutcomes :
         IF outcome = "ok"
           THEN /\ files' = Written(op[t].path, op[t].ino, op[t].off,
                                    <<op[t].arg, op[t].stamp, op[t].off + 1>>)
                /\ IF op[t].off + 1 = Size(op[t].arg)
                     THEN Return(t, Stored)
                     ELSE /\ op' = [op EXCEPT ![t].off = @ + 1]
                          /\ pc' = pc
           ELSE /\ files' = files
                /\ Return(t, Raise("OSError"))
    /\ UNCHANGED <<manager, cache_enabled, cache_days, sweep>>

\* save_transcript_to_cache: json.dump writes the next chunk of the record
\* with its cached_at; after the last one the file is closed and the call
\* returns.  A failure is caught and the call returns, the file staying as
\* it is.
SaveTranscriptWrite(t) ==
    /\ pc[t] = "wt_write"
    /\ \E outcome \in IoOutcomes :
         IF outcome = "ok"
           THEN /\ files' = Written(op[t].path, op[t].ino, op[t].off,
                                    <<op[t].arg, op[t].stamp, op[t].off + 1>>)
                /\ IF op[t].off + 1 = Size(op[t].arg)
                     THEN Return(t, Stored)
                     ELSE /\ op' = [op EXCEPT ![t].off = @ + 1]
                          /\ pc' = pc
           ELSE /\ files' = files
                /\ Return(t, StoreFailed)
    /\ UNCHANGED <<manager, cache_enabled, cache_days, sweep>>

\* cleanup_expired_cache: the listing of a directory (iterdir)
Listing(dir) == {q \in DOMAIN files : q[1] = dir}

\* cleanup_expired_cache: it returns when the cache is disabled; else it
\* takes current_time once and lists the cache root.
SweepStart ==
    /\ sweep.pc = "idle"
    /\ sweep' = IF cache_enabled
                  THEN [NoSweep EXCEPT !.pc = "pick", !.time = now,
                                       !.todo = Listing("cache")]
                  ELSE [NoSweep EXCEPT !.pc = "done"]
    /\ UNCHANGED <<manager, pc, cache_enabled, cache_days, files, op>>

\* cleanup_expired_cache: the filter of the loop at hand: is_file() and a
\* suffix other than .json at the root, is_file() and the suffix .json
\* under transcripts/
Swept(q) ==
    /\ exists(q)
    /\ IF sweep.dir = "cache" THEN q[3] # ".json" ELSE q[3] = ".json"

\* cleanup_expired_cache: the next entry of the listing; after the root
\* comes the listing of transcripts/, after that the call returns.
SweepPick ==
    /\ sweep.pc = "pick"
    /\ IF sweep.todo = {}
         THEN sweep' = IF sweep.dir = "cache"
                         THEN [sweep EXCEPT !.dir = "transcripts",
                                            !.todo = Listing("transcripts")]
                         ELSE [NoSweep EXCEPT !.pc = "done"]
         ELSE \E q \in sweep.todo :
                sweep' = IF Swept(q)
                           THEN [sweep EXCEPT !.todo = @ \ {q}, !.cur = q,
                                              !.pc = "stat"]
                           ELSE [sweep EXCEPT !.todo = @ \ {q}]
    /\ UNCHANGED <<manager, pc, cache_enabled, cache_days, files, op>>

\* The age test with the age in whole days (floor division).
AgeInDaysExceeds_WholeDays(seconds, days) == (seconds \div SecondsPerDay) > days

\* (current_time - mtime) / 24 / 3600 > self.cache_days  in true division:
\* the quotient exceeds cache_days exactly when the dividend exceeds
\* cache_days times the divisor.
AgeInDaysExceeds(seconds, days) == seconds > days * SecondsPerDay

\* cleanup_expired_cache: file_path.stat().st_mtime outside the try block,
\* which raises out of the call when the file is gone, and the age test
SweepStat ==
    /\ sweep.pc = "stat"
    /\ sweep' = IF ~exists(sweep.cur)
                  THEN [NoSweep EXCEPT !.pc = "raised"]
                  ELSE IF AgeInDaysExceeds(sweep.time - files[sweep.cur].mtime,
                                           cache_days)
                    THEN [sweep EXCEPT !.pc = "unlink"]
                    ELSE [sweep EXCEPT !.pc = "pick", !.cur = <<>>]
    /\ UNCHANGED <<manager, pc, cache_enabled, cache_days, files, op>>

\* cleanup_expired_cache: file_path.unlink() in the try block; an error is
\* logged and the loop goes on.
SweepUnlink ==
    /\ sweep.pc = "unlink"
    /\ files' = IF exists(sweep.cur) THEN unlink(sweep.cur) ELSE files
    /\ sweep' = [sweep EXCEPT !.pc = "pick", !.cur = <<>>]
    /\ UNCHANGED <<manager, pc, cache_enabled, cache_days, op>>

\* Entries left in the cache directory by an earlier run of the service: a
\* media file, a transcript record, a transcript file whose write stopped
\* half way.
OldMedia ==
    get_cache_path(md5("B_7"), ".mp3") :>
        [mtime |-> 0, data |-> Content("c", 0), ino |-> 0]
OldTranscript ==
    transcript_path(md5("B_7")) :>
        [mtime |-> 0, data |-> Content("short", 0), ino |-> 0]
TornTranscript ==
    transcript_path(md5("B_7")) :>
        [mtime |-> 0, data |-> <<<<"long", 0, 1>>>>, ino |-> 0]
\* The download directory: the files download_audio wrote.
Downloads ==
    [q \in {SourcePath(src) : src \in Sources} |->
        [mtime |-> 0, data |-> Content(q[2], 0), ino |-> 0]]
InitialDirs ==
    {Downloads @@ dir :
        dir \in {NoFiles, OldMedia, OldTranscript, TornTranscript}}

\* The engine manager at start-up, no request having used it.
EngineIdle ==
    /\ model = None
    /\ lock = NoHolder
    /\ last_active_time = 0
    /\ device = "cpu"
    /\ now = 0
    /\ cuda_available = FALSE
    /\ pc = [p \in Procs |-> IF p = Monitor THEN "sleep" ELSE "idle"]
    /\ asr_model = [t \in Threads |-> None]
    /\ target_device = [t \in Threads |-> "cpu"]
    /\ attempts = [t \in Threads |-> 0]
    /\ via = [t \in Threads |-> "none"]
    /\ made = [t \in Threads |-> None]
    /\ last_error = [t \in Threads |-> "none"]
    /\ result = [t \in Threads |-> "none"]
    /\ constructed = 0
    /\ placed = <<>>
    /\ dropped = {}
    /\ swept = {}

\* CacheManager.__init__ with the cache enabled, over a cache directory that
\* is empty or holds an entry of an earlier run.
CacheInit ==
    /\ EngineIdle
    /\ cache_enabled = TRUE
    /\ cache_days \in 0..1
    /\ files \in InitialDirs
    /\ op = [t \in Threads |-> NoOp]
    /\ sweep = NoSweep

CacheNext ==
    \/ Tick
    \/ \E t \in Threads : GetFileCall(t)
    \/ \E t \in Threads : GetFileStat(t)
    \/ \E t \in Threads : GetFileUnlink(t)
    \/ \E t \in Threads : GetTranscriptCall(t)
    \/ \E t \in Threads : GetTranscriptStat(t)
    \/ \E t \in Threads : GetTranscriptLoad(t)
    \/ \E t \in Threads : GetTranscriptUnlink(t)
    \/ \E t \in Threads : GetTranscriptDiscard(t)
    \/ \E t \in Threads : SaveFileCall(t)
    \/ \E t \in Threads : SaveFileWrite(t)
    \/ \E t \in Threads : SaveFileCopystat(t)
    \/ \E t \in Threads : SaveTranscriptCall(t)
    \/ \E t \in Threads : SaveTranscriptWrite(t)

\* The lookups and stores of concurrent requests, the cache enabled.
CacheSpec == CacheInit /\ [][CacheNext]_vars

\* CacheManager.__init__ with the cache disabled.
DisabledInit ==
    /\ EngineIdle
    /\ cache_enabled = FALSE
    /\ cache_days \in 0..1
    /\ files \in InitialDirs
    /\ op = [t \in Threads |-> NoOp]
    /\ sweep = NoSweep

DisabledNext ==
    \/ Tick
    \/ \E t \in Threads : GetFileCall(t)
    \/ \E t \in Threads : GetTranscriptCall(t)
    \/ \E t \in Threads : SaveFileCall(t)
    \/ \E t \in Threads : SaveTranscriptCall(t)
    \/ SweepStart

\* Identity tuples that carry a primary id and nothing else.
BareIdents == {<<Absent, "B", Absent>>, <<Absent, "C", Absent>>}

\* Transcript stores and lookups of requests for two videos, B and C, each
\* identified by its primary id alone; the cache starts empty.
BareInit ==
    /\ EngineIdle
    /\ cache_enabled = TRUE
    /\ cache_days \in 0..1
    /\ files = Downloads
    /\ op = [t \in Threads |-> NoOp]
    /\ sweep = NoSweep

BareLookup(t) == GetTranscriptCallWith(t, BareIdents)
BareStore(t) == SaveTranscriptCallWith(t, BareIdents)

BareNext ==
    \/ Tick
    \/ \E t \in Threads : BareLookup(t)
    \/ \E t \in Threads : GetTranscriptStat(t)
    \/ \E t \in Threads : GetTranscriptLoad(t)
    \/ \E t \in Threads : GetTranscriptUnlink(t)
    \/ \E t \in Threads : GetTranscriptDiscard(t)
    \/ \E t \in Threads : BareStore(t)
    \/ \E t \in Threads : SaveTranscriptWrite(t)

BareSpec == BareInit /\ [][BareNext]_vars

\* Every cache call and the sweep, the cache disabled.
DisabledSpec == DisabledInit /\ [][DisabledNext]_vars

\* Cache directories an earlier run left with entries of both kinds.
SweepDirs ==
    {Downloads @@ OldMedia @@ OldTranscript,
     Downloads @@ OldMedia @@ TornTranscript}

\* CacheManager.__init__ with the cache enabled, over a cache directory
\* that holds a media file and a transcript file.
SweepInit ==
    /\ EngineIdle
    /\ cache_enabled = TRUE
    /\ cache_days \in 0..1
    /\ files \in SweepDirs
    /\ op = [t \in Threads |-> NoOp]
    /\ sweep = NoSweep

SweepNext ==
    \/ Tick
    \/ \E t \in Threads : GetFileCall(t)
    \/ \E t \in Threads : GetFileStat(t)
    \/ \E t \in Threads : GetFileUnlink(t)
    \/ \E t \in Threads : GetTranscriptCall(t)
    \/ \E t \in Threads : GetTranscriptStat(t)
    \/ \E t \in Threads : GetTranscriptLoad(t)
    \/ \E t \in Threads : GetTranscriptUnlink(t)
    \/ \E t \in Threads : GetTranscriptDiscard(t)
    \/ SweepStart
    \/ SweepPick
    \/ SweepStat
    \/ SweepUnlink

\* One run of cleanup_expired_cache next to the lookups of concurrent
\* requests.
SweepSpec == SweepInit /\ [][SweepNext]_vars

CleanupNext ==
    \/ Tick
    \/ \E t \in Threads : SaveFileCall(t)
    \/ \E t \in Threads : SaveFileWrite(t)
    \/ \E t \in Threads : SaveFileCopystat(t)
    \/ SweepStart
    \/ SweepPick
    \/ SweepStat
    \/ SweepUnlink

\* cleanup_expired_cache over a cache that media stores fill.
CleanupSpec == CacheInit /\ [][CleanupNext]_vars

\* -------------------------------------------------------- download flow

\* download_bilibili_audio: the extension it looks up and downloads under,
\* the file it downloads to, and the identity it passes to the cache.
FlowExt == ".m4a"
FlowSource == "b.m4a"
FlowIdent == <<"u", "B", "7">>

\* (False, message) and (True, {"file_path": ...}) as the flow returns them.
ReturnError(msg) == [Pending EXCEPT !.kind = "error", !.name = msg]
FlowResult(r) == [NoOp EXCEPT !.name = "download_bilibili_audio", !.ret = r]

\* download_bilibili_audio: get_audio_info gives nothing and the flow
\* returns (False, ...) before the cache is consulted.
FlowNoInfo(t) ==
    /\ pc[t] = "idle"
    /\ pc' = [pc EXCEPT ![t] = "flow_done"]
    /\ op' = [op EXCEPT ![t] = FlowResult(ReturnError("no audio info"))]
    /\ UNCHANGED <<manager, cache_enabled, cache_days, files, sweep>>

\* download_bilibili_audio: cache_manager.get_cached_file(None, bvid, ext,
\* audio id)
FlowLookup(t) ==
    /\ GetFileCall(t)
    /\ op'[t].arg = FlowExt

\* download_bilibili_audio: if cached_file: the cached path is returned.
FlowHit(t) ==
    /\ pc[t] = "done"
    /\ op[t].name = "get_cached_file"
    /\ op[t].ret.kind = "path"
    /\ pc' = [pc EXCEPT ![t] = "flow_done"]
    /\ op' = [op EXCEPT ![t] = FlowResult(op[t].ret)]
    /\ UNCHANGED <<manager, cache_enabled, cache_days, files, sweep>>

\* download_bilibili_audio: an exception out of get_cached_file is caught
\* by the flow's handler, which returns (False, str(e)).
FlowLookupRaised(t) ==
    /\ pc[t] = "done"
    /\ op[t].name = "get_cached_file"
    /\ op[t].ret.kind = "raised"
    /\ pc' = [pc EXCEPT ![t] = "flow_done"]
    /\ op' = [op EXCEPT ![t] = FlowResult(ReturnError(op[t].ret.name))]
    /\ UNCHANGED <<manager, cache_enabled, cache_days, files, sweep>>

\* download_bilibili_audio without its test of cached_file: it downloads
\* after every lookup.
FlowDownload_AfterAnyLookup(t) ==
    /\ pc[t] = "done"
    /\ op[t].name = "get_cached_file"
    /\ \E outcome \in IoOutcomes :
         IF outcome = "ok"
           THEN /\ files' = put(SourcePath(FlowSource),
                                [mtime |-> now,
                                 data |-> Content(FlowSource, 0),
                                 ino |-> 0])
                /\ pc' = [pc EXCEPT ![t] = "downloaded"]
                /\ op' = [op EXCEPT ![t] =
                            [NoOp EXCEPT !.name = "download_audio",
                                         !.arg = FlowSource]]
           ELSE /\ files' = files
                /\ pc' = [pc EXCEPT ![t] = "flow_done"]
                /\ op' = [op EXCEPT ![t] =
                            FlowResult(ReturnError("download failed"))]
    /\ UNCHANGED <<manager, cache_enabled, cache_days, sweep>>

\* FlowDownload whose failed download leaves what it received in the cache.
FlowDownload_CachesPartial(t) ==
    /\ pc[t] = "done"
    /\ op[t].name = "get_cached_file"
    /\ op[t].ret = ReturnNone
    /\ \E outcome \in IoOutcomes :
         IF outcome = "ok"
           THEN /\ files' = put(SourcePath(FlowSource),
                                [mtime |-> now,
                                 data |-> Content(FlowSource, 0),
                                 ino |-> 0])
                /\ pc' = [pc EXCEPT ![t] = "downloaded"]
                /\ op' = [op EXCEPT ![t] =
                            [NoOp EXCEPT !.name = "download_audio",
                                         !.arg = FlowSource]]
           ELSE /\ files' = put(op[t].path,
                                [mtime |-> now, data |-> <<>>, ino |-> t])
                /\ pc' = [pc EXCEPT ![t] = "flow_done"]
                /\ op' = [op EXCEPT ![t] =
                            FlowResult(ReturnError("download failed"))]
    /\ UNCHANGED <<manager, cache_enabled, cache_days, sweep>>

\* download_bilibili_audio: after a miss, get_audio_url and download_audio,
\* which writes the file under save_dir; when either fails the flow
\* returns (False, ...) and nothing is stored.
FlowDownload(t) ==
    /\ pc[t] = "done"
    /\ op[t].name = "get_cached_file"
    /\ op[t].ret = ReturnNone
    /\ \E outcome \in IoOutcomes :
         IF outcome = "ok"
           THEN /\ files' = put(SourcePath(FlowSource),
                                [mtime |-> now,
                                 data |-> Content(FlowSource, 0),
                                 ino |-> 0])
                /\ pc' = [pc EXCEPT ![t] = "downloaded"]
                /\ op' = [op EXCEPT ![t] =
                            [NoOp EXCEPT !.name = "download_audio",
                                         !.arg = FlowSource]]
           ELSE /\ files' = files
                /\ pc' = [pc EXCEPT ![t] = "flow_done"]
                /\ op' = [op EXCEPT ![t] =
                            FlowResult(ReturnError("download failed"))]
    /\ UNCHANGED <<manager, cache_enabled, cache_days, sweep>>

\* download_bilibili_audio: if success: cache_manager.save_to_cache(
\* audio_url, result, bvid, audio id), here up to the open of the
\* destination as in SaveFileCall.
FlowStore(t) ==
    /\ pc[t] = "downloaded"
    /\ \E outcome \in IoOutcomes :
         LET src == op[t].arg
             ext == IF Suffix(src) = "" THEN ".mp3" ELSE Suffix(src)
             key == save_to_cache_key(FlowIdent[1], FlowIdent[2], FlowIdent[3])
             path == get_cache_path(key, ext)
             call == Called("save_to_cache", FlowIdent, src, key, path)
         IN  IF cache_enabled /\ outcome = "ok" /\ exists(SourcePath(src))
               THEN /\ files' = Truncated(path, t)
                    /\ op' = [op EXCEPT ![t] =
                                [call EXCEPT !.ino = files'[path].ino]]
                    /\ pc' = [pc EXCEPT ![t] = "sf_write"]
               ELSE /\ files' = files
                    /\ op' = [op EXCEPT ![t] =
                                Finished(call, ReturnSource(src))]
                    /\ pc' = [pc EXCEPT ![t] = "done"]
    /\ UNCHANGED <<manager, cache_enabled, cache_days, sweep>>

\* download_bilibili_audio: the path save_to_cache returned is returned as
\* file_path.
FlowReturn(t) ==
    /\ pc[t] = "done"
    /\ op[t].name = "save_to_cache"
    /\ pc' = [pc EXCEPT ![t] = "flow_done"]
    /\ op' = [op EXCEPT ![t] = FlowResult(op[t].ret)]
    /\ UNCHANGED <<manager, cache_enabled, cache_days, files, sweep>>

\* The media file of the flow's identity, cached by an earlier request.
CachedMedia ==
    get_cache_path(md5("B_7"), FlowExt) :>
        [mtime |-> 0, data |-> Content(FlowSource, 0), ino |-> 0]

\* The cache, enabled or not, empty or holding the flow's media file; the
\* download directory is empty.
FlowInit ==
    /\ EngineIdle
    /\ cache_enabled \in BOOLEAN
    /\ cache_days \in 0..1
    /\ files \in {NoFiles, CachedMedia}
    /\ op = [t \in Threads |-> NoOp]
    /\ sweep = NoSweep

FlowNext ==
    \/ Tick
    \/ \E t \in Threads : FlowNoInfo(t)
    \/ \E t \in Threads : FlowLookup(t)
    \/ \E t \in Threads : GetFileStat(t)
    \/ \E t \in Threads : GetFileUnlink(t)
    \/ \E t \in Threads : FlowHit(t)
    \/ \E t \in Threads : FlowLookupRaised(t)
    \/ \E t \in Threads : FlowDownload(t)
    \/ \E t \in Threads : FlowStore(t)
    \/ \E t \in Threads : SaveFileWrite(t)
    \/ \E t \in Threads : SaveFileCopystat(t)
    \/ \E t \in Threads : FlowReturn(t)

\* Concurrent requests running download_bilibili_audio for one video.
FlowSpec == FlowInit /\ [][FlowNext]_vars

\* ------------------------------------------------------- upload handler
\* transcribe_audio: temp_dir / generate_safe_filename(file.filename), a name
\* made of the time and a fresh uuid, taken to be different for every
\* request.
TempPath(t) == <<"tmp", <<"temp", t>>, ".tmp">>

\* Outcomes of  with open(temp_filename, "wb") as buffer:
\* shutil.copyfileobj(file.file, buffer) : the upload is written, the open
\* raises, or the copy raises after the open created the file.
UploadOutcomes == {"ok", "open_raises", "copy_raises"}

\* transcribe_audio: after load_model_if_needed has returned, the upload is
\* written to the temporary file, before the try block.  An error raised
\* here leaves the handler at once: no except or finally clause covers it.
UploadWrite(t) ==
    /\ pc[t] = "generating"
    /\ op[t] = NoOp
    /\ \E outcome \in UploadOutcomes :
         CASE outcome = "ok" ->
                /\ files' = put(TempPath(t),
                                [mtime |-> now, data |-> Content("upload", 0),
                                 ino |-> t])
                /\ op' = [op EXCEPT ![t] =
                            [NoOp EXCEPT !.name = "upload",
                                         !.path = TempPath(t)]]
                /\ UNCHANGED <<pc, result, asr_model>>
           [] outcome = "open_raises" ->
                /\ files' = files
                /\ op' = [op EXCEPT ![t] =
                            [NoOp EXCEPT !.name = "upload",
                                         !.ret = Raise("OSError")]]
                /\ pc' = [pc EXCEPT ![t] = "responded"]
                /\ result' = [result EXCEPT ![t] = "raised"]
                /\ asr_model' = [asr_model EXCEPT ![t] = None]
           [] OTHER ->
                /\ files' = put(TempPath(t),
                                [mtime |-> now, data |-> <<>>, ino |-> t])
                /\ op' = [op EXCEPT ![t] =
                            [NoOp EXCEPT !.name = "upload",
                                         !.path = TempPath(t),
                                         !.ret = Raise("OSError")]]
                /\ pc' = [pc EXCEPT ![t] = "responded"]
                /\ result' = [result EXCEPT ![t] = "raised"]
                /\ asr_model' = [asr_model EXCEPT ![t] = None]
    /\ UNCHANGED <<mgr, hist, target_device, attempts, via, made, last_error,
                   cuda_available, now, cache_enabled, cache_days, sweep>>

\* transcribe_audio: asr_model.generate(input=str(temp_filename), ...) in
\* the try block, once the upload is written.
UploadGenerate(t) ==
    /\ op[t].name = "upload"
    /\ Generate(t)

\* transcribe_audio: the finally clause, run after the try block or the
\* except clause has computed the response:
\* if os.path.exists(temp_filename): os.remove(temp_filename)
UploadFinally(t) ==
    /\ pc[t] = "done"
    /\ result[t] \in {"success", "error"}
    /\ files' = IF exists(TempPath(t)) THEN unlink(TempPath(t)) ELSE files
    /\ pc' = [pc EXCEPT ![t] = "responded"]
    /\ UNCHANGED <<manager, cache_enabled, cache_days, op, sweep>>

UploadNext ==
    \/ Tick
    \/ \E t \in Threads : StartRequest(t)
    \/ \E t \in Threads : FastCheck(t)
    \/ \E t \in Threads : LoadAcquire(t)
    \/ \E t \in Threads : LockedCheck(t)
    \/ \E t \in Threads : InitPreferred(t)
    \/ \E t \in Threads : SetDevice(t)
    \/ \E t \in Threads : InitFallback(t)
    \/ \E t \in Threads : SetCpu(t)
    \/ \E t \in Threads : ReturnModel(t)
    \/ \E t \in Threads : LoadFailed(t)
    \/ \E t \in Threads : UploadWrite(t)
    \/ \E t \in Threads : UploadGenerate(t)
    \/ \E t \in Threads : Refresh(t)
    \/ \E p \in Procs : UnloadAcquire(p)
    \/ \E p \in Procs : UnloadDrop(p)
    \/ \E t \in Threads : ErrorReturn(t)
    \/ \E t \in Threads : UploadFinally(t)
    \/ MonitorWake
    \/ MonitorCheckIdle

\* The /transcribe handler of concurrent requests, with its temporary file.
UploadSpec == Init /\ [][UploadNext]_vars

\* ------------------------------------------------------------ properties

\* The request has received the return value of load_model_if_needed.
Returned(t) ==
    pc[t] \in {"generating", "refresh", "unload_wait", "unloading", "error_return"}

\* The manager's state as the spec names it.
Loaded == model # None
Unloaded == model = None

\* C1: callers that find the manager Unloaded at the same time construct
\* the engine once: every instance AutoModel has returned is either the one
\* the manager holds or one that unload_model dropped, so without an unload
\* there is no second initialization; and as long as nothing was unloaded
\* every caller that returned holds the manager's one instance.
C1_SingleInitialization ==
    /\ constructed = Cardinality(dropped) + (IF Loaded THEN 1 ELSE 0)
    /\ dropped = {} =>
         \A t \in Threads : Returned(t) => asr_model[t] = model /\ Loaded

\* Two callers both saw the manager Unloaded; one initialized, the other
\* found the instance under the lock, and the first already returned it.
C1_Witness ==
    \E t, u \in Threads :
        /\ t # u
        /\ pc[t] = "generating" /\ asr_model[t] = model /\ Loaded
        /\ pc[u] = "ret" /\ via[u] = "recheck"
        /\ constructed = 1 /\ dropped = {}

\* C2: while a request that obtained the handle is inside generate, the
\* idle sweep never drops the instance the request holds.
C2_NoSweepDuringGenerate ==
    [][ (pc[Monitor] = "unloading" /\ Loaded /\ model' = None) =>
          \A t \in Threads : ~(pc[t] = "generating" /\ asr_model[t] = model) ]_vars

\* C3: the value load_model_if_needed returns is an engine instance, never
\* None.
C3_ReturnsInstance ==
    \A t \in Threads : Returned(t) => asr_model[t] \in Instances

\* C4: a Loaded manager whose last_active_time stays older than
\* idle_timeout is set to Unloaded by the monitor, and the load that follows
\* the eviction initializes again and returns a new instance.
C4_EvictionPart ==
    (Loaded /\ IdleExpired) ~> (Unloaded \/ ~IdleExpired)

C4_IdleEvictionThenReload ==
    /\ (Loaded /\ IdleExpired) ~> (Unloaded \/ ~IdleExpired)
    /\ [][ \A t \in Threads :
             /\ (pc[t] = "locked_check" /\ Unloaded /\ pc'[t] # pc[t])
                => pc'[t] = "init"
             /\ (/\ pc[t] = "ret" /\ pc'[t] = "generating"
                 /\ \E i \in swept : i < made[t])
                => asr_model'[t] = made[t] ]_vars

\* C5: an out-of-memory failure of the first attempt on cuda is followed
\* by exactly one more attempt, on cpu; when that attempt succeeds the
\* manager is Loaded with the instance it made and device is "cpu".
C5_FallbackOnce ==
    [][ \A t \in Threads :
          /\ (/\ pc[t] = "init" /\ target_device[t] = "cuda"
              /\ last_error'[t] = "oom")
             => pc'[t] = "fallback" /\ attempts'[t] = 1 /\ lock' = t
          /\ (pc[t] = "fallback" /\ pc'[t] # "fallback") => attempts'[t] = 2
          /\ (pc[t] = "set_cpu" /\ pc'[t] # "set_cpu")
             => /\ attempts'[t] = 2
                /\ Loaded' /\ model' = made[t]
                /\ device' = "cpu" ]_vars

\* The retry on cpu succeeded after cuda ran out of memory.
C5_Witness ==
    \E t \in Threads :
        /\ pc[t] = "ret" /\ via[t] = "fallback" /\ attempts[t] = 2
        /\ target_device[t] = "cuda"
        /\ Loaded /\ model = made[t] /\ device = "cpu"

\* C6: a failure of the first attempt that is not out of memory on cuda
\* (out of memory on cpu included) is not retried: it reaches the caller
\* after one attempt, with the manager Unloaded and the lock free.
C6_OtherFailurePropagates ==
    [][ \A t \in Threads :
          (/\ pc[t] = "init" /\ last_error'[t] # "none"
           /\ ~(last_error'[t] = "oom" /\ target_device[t] = "cuda"))
          => /\ pc'[t] = "load_failed"
             /\ attempts'[t] = 1
             /\ Unloaded' /\ lock' = NoHolder ]_vars

\* The only attempt ran out of memory on cpu and the error reached the caller.
C6_Witness ==
    \E t \in Threads :
        /\ pc[t] = "load_failed" /\ attempts[t] = 1
        /\ last_error[t] = "oom" /\ target_device[t] = "cpu"
        /\ Unloaded /\ lock = NoHolder

\* C7: when the retry on cpu fails too there is no third attempt: the error
\* reaches the caller, with the manager Unloaded and the lock free.
C7_NoThirdAttempt ==
    [][ \A t \in Threads :
          /\ attempts'[t] <= 2
          /\ (/\ pc[t] = "fallback" /\ attempts'[t] # attempts[t]
              /\ made'[t] = None)
             => /\ pc'[t] = "load_failed"
                /\ attempts'[t] = 2
                /\ Unloaded' /\ lock' = NoHolder ]_vars

\* Both attempts failed and the error reached the caller.
C7_Witness ==
    \E t \in Threads :
        /\ pc[t] = "load_failed" /\ attempts[t] = 2
        /\ Unloaded /\ lock = NoHolder

\* C8 as claimed: after generate ran out of memory the manager is Unloaded
\* when the handler returns.
C8_UnloadedAtReturn ==
    \A t \in Threads :
        (pc[t] = "error_return" /\ last_error[t] = "oom") => Unloaded

\* C8 as amended: after generate ran out of memory the handler calls
\* unload_model, the manager is Unloaded when unload_model returns, the
\* request returns status "error", and an acquire that finds the manager
\* Unloaded initializes a fresh instance, never a dropped one.
C8_ForcedUnload ==
    [][ \A t \in Threads :
          /\ (pc[t] = "generating" /\ last_error'[t] = "oom")
             => pc'[t] = "unload_wait"
          /\ (pc[t] = "unloading" /\ pc'[t] # "unloading")
             => pc'[t] = "error_return" /\ Unloaded' /\ lock' = NoHolder
          /\ (pc[t] = "error_return" /\ pc'[t] # "error_return")
             => pc'[t] = "done" /\ result'[t] = "error"
          /\ (pc[t] = "fast_check" /\ Unloaded /\ pc'[t] # pc[t])
             => pc'[t] = "wait_lock"
          /\ (pc[t] = "locked_check" /\ Unloaded /\ pc'[t] # pc[t])
             => pc'[t] = "init"
          /\ (pc[t] = "init" /\ Loaded')
             => model' \notin dropped \cup {model} ]_vars

\* A request returned from the forced unload and the next request's acquire
\* found the manager Unloaded and is initializing.
C8_Witness ==
    \E t, u \in Threads :
        /\ pc[t] = "done" /\ result[t] = "error"
        /\ pc[u] = "init"
        /\ Unloaded /\ dropped # {} /\ swept = {}

\* Instances referenced by the manager or by a request in flight.
LiveInstances == ({model} \cup {asr_model[t] : t \in Threads}) \ {None}

\* C9: at most one engine instance exists, counting the manager's and those
\* held by requests.
C9_AtMostOneInstance == Cardinality(LiveInstances) <= 1

\* C10: manager.model changes only in a step of the process that holds the
\* lock.
C10_ChangesUnderLock ==
    [][ model' # model => lock \in Procs /\ pc'[lock] # pc[lock] ]_vars

\* An instance was dropped and a new one has just been stored, the storing
\* thread still holding the lock.
C10_Witness ==
    \E t \in Threads :
        /\ pc[t] = "set_device" /\ lock = t
        /\ Loaded /\ dropped # {}

\* Positions of a process inside a  with self.lock  block.
LockedSection ==
    {"locked_check", "init", "set_device", "fallback", "set_cpu", "unloading"}

\* C11: the lifecycle lock is never held while generate runs: whoever holds
\* the lock is inside load_model_if_needed's or unload_model's with block,
\* so a load or unload asked for during an inference waits for no inference.
C11_LockFreeDuringGenerate ==
    /\ \A t \in Threads : pc[t] = "generating" => lock # t
    /\ lock # NoHolder => pc[lock] \in LockedSection

\* A request is inside generate while another request, having found the
\* manager Unloaded, holds the lock and initializes.
C11_Witness ==
    \E t, u \in Threads :
        /\ pc[t] = "generating" /\ asr_model[t] \in Instances
        /\ pc[u] = "init" /\ lock = u

\* The identity tuple of a cache call: raw locator, primary id, secondary id.
Ident(o) == <<o.url, o.bvid, o.audio_id>>

\* The key material the priority rule selects for an identity tuple.
KeyMaterial(o) ==
    CASE o.bvid # Absent /\ o.audio_id # Absent -> o.bvid \o "_" \o o.audio_id
      [] o.bvid # Absent /\ o.audio_id = Absent /\ o.url # Absent ->
             o.url \o o.bvid
      [] o.bvid = Absent /\ o.url # Absent -> o.url
      [] OTHER -> ""

\* The request threads that have derived a key.
Keyed == {t \in Threads : pc[t] = "done" /\ op[t].name \in CacheCalls}

\* C14 as claimed: the key is a function of the identity tuple, and two
\* differing identity tuples never get the same key.
C14_DistinctTuplesDistinctKeys ==
    \A t, u \in Keyed :
        (Ident(op[t]) = Ident(op[u])) <=> (op[t].key = op[u].key)

\* C14 as amended: the key is a function of the identity tuple, and two
\* tuples get the same key exactly when the priority rule selects the same
\* key material for them.
C14_KeyFollowsMaterial ==
    \A t, u \in Keyed :
        /\ (Ident(op[t]) = Ident(op[u])) => (op[t].key = op[u].key)
        /\ (op[t].key = op[u].key) <=> (KeyMaterial(op[t]) = KeyMaterial(op[u]))

\* Two identity tuples that differ in the raw locator only, both with a
\* primary and a secondary id, were given one key.
C14_Witness ==
    \E t, u \in Keyed :
        /\ op[t].url # op[u].url
        /\ op[t].bvid = "B" /\ op[u].bvid = "B"
        /\ op[t].audio_id = "7" /\ op[u].audio_id = "7"
        /\ op[t].key = op[u].key

\* C15: each of the four cache calls hashes the key material chosen by
\* priority: primary id and secondary id when both are present, else raw
\* locator and primary id when both are present, else the raw locator,
\* else the empty string.
C15_KeyByPriority ==
    \A t \in Keyed : op[t].key = md5(KeyMaterial(op[t]))

\* The transcript store and the media lookup both took the compatibility
\* path (raw locator and primary id, no secondary id) to the same key.
C15_Witness ==
    \E t, u \in Keyed :
        /\ op[t].name = "save_transcript_to_cache"
        /\ op[u].name = "get_cached_file"
        /\ Ident(op[t]) = <<"u", "B", Absent>>
        /\ Ident(op[u]) = <<"u", "B", Absent>>
        /\ op[t].key = md5("uB") /\ op[u].key = op[t].key

\* No request but t is inside a cache call; no request but t has made one.
Quiet(t) == \A u \in Threads \ {t} : pc[u] \in {"idle", "done"}
Alone(t) == \A u \in Threads \ {t} : pc[u] = "idle"

\* C12: a transcript store that succeeds, undisturbed, leaves the record
\* with its cached_at as the file's whole content, and an undisturbed
\* lookup that finds that file within the TTL returns exactly that: the
\* record's fields and cached_at.
C12_TranscriptRoundTrip ==
    [][ \A t \in Threads :
          /\ (pc[t] = "wt_write" /\ op'[t].ret = Stored /\ Alone(t))
             => /\ op[t].path \in DOMAIN files'
                /\ files'[op[t].path].data = Content(op[t].arg, op[t].stamp)
                /\ files'[op[t].path].mtime = now
          /\ (/\ pc[t] = "gt_stat" /\ pc'[t] # "gt_stat" /\ Quiet(t)
              /\ exists(op[t].path) /\ file_age(op[t].path) <= TTL)
             => pc'[t] = "gt_load"
          /\ (/\ pc[t] = "gt_load" /\ pc'[t] # "gt_load" /\ Quiet(t)
              /\ exists(op[t].path) /\ Whole(files[op[t].path].data))
             => LET data == files[op[t].path].data
                IN  /\ op'[t].ret = ReturnRecord(data[1][1], data[1][2])
                    /\ files' = files ]_vars

\* The record "long" was stored and the lookup made right after returned it
\* with the store's cached_at.
C12_Witness ==
    \E t, u \in Threads :
        /\ pc[t] = "done" /\ op[t].name = "save_transcript_to_cache"
        /\ op[t].arg = "long" /\ op[t].ret = Stored
        /\ pc[u] = "done" /\ op[u].name = "get_cached_transcript"
        /\ op[u].ret.kind = "record" /\ op[u].ret.name = "long"
        /\ \E path \in DOMAIN files :
              files[path].data = Content("long", op[u].ret.stamp)

\* Request t has returned from a store that wrote its entry.
StoreDone(t) ==
    /\ pc[t] = "done"
    /\ \/ op[t].name = "save_to_cache" /\ op[t].ret.kind = "path"
       \/ op[t].name = "save_transcript_to_cache" /\ op[t].ret = Stored

\* Request u is at the stat of a lookup of the entry that request t stored,
\* no other request having made a cache call.
LooksUpStored(t, u) ==
    /\ t # u
    /\ StoreDone(t)
    /\ pc[u] \in {"gf_stat", "gt_stat"}
    /\ op[u].path = op[t].path
    /\ \A w \in Threads \ {t, u} : pc[w] = "idle"

\* C13: an entry of either kind that a store finished writing at time T is
\* a hit for a lookup at any time up to T + TTL, and after that a miss that
\* deletes the entry, whatever mtime the copied source file has.
C13_TTLFromWriteTime ==
    [][ \A t, u \in Threads :
          /\ (LooksUpStored(t, u) /\ pc'[u] # pc[u])
             => IF now - op[t].stamp <= TTL
                  THEN \/ pc'[u] = "gt_load"
                       \/ op'[u].ret = ReturnPath(op[u].path)
                  ELSE pc'[u] \in {"gf_unlink", "gt_unlink"}
          /\ (/\ pc[u] \in {"gf_unlink", "gt_unlink"} /\ pc'[u] # pc[u]
              /\ Quiet(u) /\ exists(op[u].path))
             => /\ op[u].path \notin DOMAIN files'
                /\ op'[u].ret = ReturnNone ]_vars

\* C13 for transcript records alone.
C13_TranscriptTTL ==
    [][ \A t, u \in Threads :
          (LooksUpStored(t, u) /\ pc[u] = "gt_stat" /\ pc'[u] # pc[u])
             => IF now - op[t].stamp <= TTL
                  THEN pc'[u] = "gt_load"
                  ELSE pc'[u] = "gt_unlink" ]_vars

\* The directory (the artifact kind) and the fingerprint of a cache path.
KindOf(path) == path[1]
FingerprintOf(path) == path[2]

\* C16: the cache never holds two entries of one kind for one fingerprint,
\* whatever extensions the stored source files have.
C16_OneEntryPerFingerprint ==
    \A p, q \in DOMAIN files :
        (KindOf(p) = KindOf(q) /\ FingerprintOf(p) = FingerprintOf(q))
            => p = q

\* C16 for transcript records alone, whose path has a fixed extension.
C16_OneTranscriptPerFingerprint ==
    \A p, q \in DOMAIN files :
        (/\ KindOf(p) = "transcripts" /\ KindOf(q) = "transcripts"
         /\ FingerprintOf(p) = FingerprintOf(q))
            => p = q

\* Requests t and u have both returned from a store of the same kind that
\* wrote its entry, no other request having made a cache call.
StoredBoth(t, u) ==
    /\ t # u
    /\ StoreDone(t) /\ StoreDone(u)
    /\ op[t].name = op[u].name
    /\ \A w \in Threads \ {t, u} : pc[w] = "idle"

\* The entries the cache holds of the kind and fingerprint of path.
Entries(path) ==
    {p \in DOMAIN files :
        KindOf(p) = KindOf(path) /\ FingerprintOf(p) = FingerprintOf(path)}

\* C17: when two stores of one fingerprint, run concurrently as
\* truncate-then-write steps, have both finished, the cache holds exactly
\* one entry for the fingerprint and its content is the complete content of
\* one of the two callers.
C17_ConcurrentStoresLeaveOneWhole ==
    \A t, u \in Threads :
        StoredBoth(t, u)
            => \E p \in DOMAIN files :
                   /\ Entries(op[t].path) = {p}
                   /\ Whole(files[p].data)
                   /\ files[p].data[1][1] \in {op[t].arg, op[u].arg}

\* The sweep removes no entry before it has expired.
C18_NoUnexpiredRemoved ==
    [][ sweep.pc = "unlink"
          => \A p \in DOMAIN files \ DOMAIN files' :
                 now - files[p].mtime > TTL ]_vars

\* C18: with cleanup_expired_cache running beside lookups of either kind,
\* in no interleaving does the sweep raise, nor does a lookup that is the
\* only request beside the sweep, and no unexpired entry is removed.
C18_SweepSafeWithLookups ==
    [][ /\ sweep'.pc # "raised"
        /\ \A t \in Threads : Alone(t) => op'[t].ret.kind # "raised"
        /\ sweep.pc = "unlink"
             => \A p \in DOMAIN files \ DOMAIN files' :
                    now - files[p].mtime > TTL ]_vars

\* C18 for the lookups alone: the only request beside the sweep does not
\* raise.
C18_LookupSafeWithSweep ==
    \A t \in Threads : Alone(t) => op[t].ret.kind # "raised"

\* The value a cache call returns when the cache is disabled: None from the
\* lookups and from save_transcript_to_cache, file_path from save_to_cache.
PassThrough(call) ==
    IF call.name = "save_to_cache" THEN ReturnSource(call.arg) ELSE ReturnNone

\* C19: with the cache disabled every cache call returns at once, the
\* lookups absent and save_to_cache its input path, the sweep returns at
\* once, and no step creates, modifies or deletes a file.
C19_DisabledPassThrough ==
    [][ ~cache_enabled
          => /\ files' = files
             /\ \A t \in Threads :
                    pc'[t] # pc[t]
                        => /\ pc'[t] = "done"
                           /\ op'[t].ret = PassThrough(op'[t])
             /\ sweep'.pc \in {"idle", "done"} ]_vars

\* The cache disabled over a directory that holds a media file: a lookup
\* and a store of that identity and the sweep have all returned.
C19_Witness ==
    /\ ~cache_enabled
    /\ files = Downloads @@ OldMedia
    /\ sweep.pc = "done"
    /\ \E t, u \in Threads :
          /\ pc[t] = "done" /\ op[t].name = "get_cached_file"
          /\ op[t].ret = ReturnNone
          /\ pc[u] = "done" /\ op[u].name = "save_to_cache"
          /\ op[u].arg = "b.m4a" /\ op[u].ret = ReturnSource("b.m4a")

\* C20: an undisturbed transcript lookup that finds an unexpired file it
\* cannot deserialize raises nothing, deletes the file and returns absent;
\* a transcript lookup that finds no file returns absent at once and
\* leaves the directory as it is.
C20_CorruptTranscriptDiscarded ==
    [][ \A t \in Threads :
          /\ (/\ pc[t] = "gt_load" /\ pc'[t] # pc[t] /\ Quiet(t)
              /\ exists(op[t].path) /\ ~Whole(files[op[t].path].data))
             => /\ pc'[t] = "gt_discard"
                /\ files' = files
          /\ (/\ pc[t] = "gt_discard" /\ pc'[t] # pc[t] /\ Quiet(t)
              /\ exists(op[t].path))
             => /\ op[t].path \notin DOMAIN files'
                /\ op'[t].ret = ReturnNone
          /\ (/\ pc[t] = "idle" /\ op'[t].name = "get_cached_transcript"
              /\ op'[t].path \notin DOMAIN files)
             => /\ pc'[t] = "done"
                /\ op'[t].ret = ReturnNone
                /\ files' = files ]_vars

\* A lookup has found the half-written transcript of an earlier run
\* unexpired, has failed to load it and is about to delete it.
C20_Witness ==
    \E t \in Threads :
        /\ pc[t] = "gt_discard" /\ Alone(t)
        /\ files = Downloads @@ TornTranscript
        /\ file_age(op[t].path) <= TTL

\* C21: a save_to_cache whose copy fails raises nothing and returns the
\* source path; one whose copy succeeds returns the cache path; either way
\* the path returned names a file that exists when the call returns, and
\* after an undisturbed copy the cache file holds the source's content.
C21_StoreReturnsUsablePath ==
    [][ \A t \in Threads :
          (pc[t] # "done" /\ pc'[t] = "done"
             /\ op'[t].name = "save_to_cache" /\ cache_enabled)
            => LET src == SourcePath(op'[t].arg)
                   dst == op'[t].path
               IN  IF pc[t] = "sf_copystat" /\ exists(dst) /\ exists(src)
                     THEN /\ op'[t].ret = ReturnPath(dst)
                          /\ dst \in DOMAIN files'
                          /\ Alone(t) => files'[dst].data = files[src].data
                     ELSE /\ op'[t].ret = ReturnSource(op'[t].arg)
                          /\ src \in DOMAIN files' ]_vars

\* Two stores of one source have returned, one the cache path of a copy
\* that went through and one the source path after a failed copy.
C21_Witness ==
    \E t, u \in Threads :
        /\ pc[t] = "done" /\ op[t].name = "save_to_cache"
        /\ op[t].ret = ReturnPath(get_cache_path(md5("B_7"), ".m4a"))
        /\ op[t].ret.path \in DOMAIN files
        /\ pc[u] = "done" /\ op[u].name = "save_to_cache"
        /\ op[u].ret = ReturnSource("b.m4a")
        /\ SourcePath("b.m4a") \in DOMAIN files

\* C22: save_transcript_to_cache never raises: a call that has returned,
\* whether or not its open or one of its writes failed, has returned None,
\* so the request that made it goes on.
C22_TranscriptStoreNeverRaises ==
    \A t \in Threads :
        (pc[t] = "done" /\ op[t].name = "save_transcript_to_cache")
            => op[t].ret \in {Stored, StoreFailed, ReturnNone}

\* A transcript store has returned after its second write failed, the
\* first chunk of its record left in the file.
C22_Witness ==
    \E t \in Threads :
        /\ pc[t] = "done" /\ op[t].name = "save_transcript_to_cache"
        /\ op[t].arg = "long" /\ op[t].ret = StoreFailed
        /\ exists(op[t].path)
        /\ Len(files[op[t].path].data) = 1
        /\ files[op[t].path].data[1][1] = "long"

\* The time the entry at path was written: the return of the last store
\* that wrote it, and for an entry of an earlier run its mtime.
StoredAt(path) ==
    LET writers == {t \in Threads : StoreDone(t) /\ op[t].path = path}
    IN  IF writers = {} THEN files[path].mtime
        ELSE CHOOSE T \in {op[t].stamp : t \in writers} :
                 \A t \in writers : op[t].stamp <= T

\* C23: cleanup_expired_cache, no cache call being in progress, decides to
\* delete an entry exactly when the time since the entry was written
\* exceeds the TTL; it deletes the entry it decided on and nothing else,
\* and when it returns no entry of either kind is left whose age exceeds
\* the TTL.
C23_SweepDeletesExactlyExpired ==
    [][ /\ (sweep.pc = "stat" /\ sweep' # sweep /\ exists(sweep.cur)
            /\ \A t \in Threads : pc[t] \in {"idle", "done"})
           => (sweep'.pc = "unlink"
                 <=> sweep.time - StoredAt(sweep.cur) > TTL)
        /\ (sweep.pc = "unlink" /\ sweep' # sweep /\ exists(sweep.cur))
           => files' = unlink(sweep.cur)
        /\ (sweep.pc # "unlink" /\ sweep' # sweep) => files' = files
        /\ (sweep.pc = "pick" /\ sweep'.pc = "done"
            /\ \A t \in Threads : pc[t] \in {"idle", "done"})
           => \A p \in Listing("cache") \cup Listing("transcripts") :
                  ~(sweep.time - StoredAt(p) > TTL) ]_vars

\* C24: the download flow looks the media file up before anything else
\* that touches files; after a hit it downloads nothing and returns the
\* cached path; a download is made only after a miss, and a store into the
\* cache is begun only after the download succeeded.
C24_CacheBeforeDownload ==
    [][ \A t \in Threads :
          /\ (pc[t] = "idle" /\ pc'[t] # "idle")
             => \/ op'[t].name = "get_cached_file"
                \/ pc'[t] = "flow_done" /\ files' = files
          /\ (/\ pc[t] = "done" /\ pc'[t] # "done"
              /\ op[t].name = "get_cached_file" /\ op[t].ret.kind = "path")
             => /\ pc'[t] = "flow_done"
                /\ op'[t].ret = op[t].ret
                /\ files' = files
          /\ (pc'[t] = "downloaded" /\ pc[t] # "downloaded")
             => /\ pc[t] = "done"
                /\ op[t].name = "get_cached_file"
                /\ op[t].ret = ReturnNone
          /\ (pc'[t] = "sf_write" /\ pc[t] # "sf_write")
             => /\ pc[t] = "downloaded"
                /\ exists(SourcePath(op'[t].arg)) ]_vars

\* One request has returned the cached path after a hit while the download
\* directory was empty; the other, later, found the entry expired, missed
\* and has downloaded the file it is about to store.
C24_Witness ==
    \E t, u \in Threads :
        /\ pc[t] = "flow_done"
        /\ op[t].ret = ReturnPath(get_cache_path(md5("B_7"), FlowExt))
        /\ pc[u] = "downloaded"
        /\ exists(SourcePath(FlowSource))
        /\ files[SourcePath(FlowSource)].mtime = 1
        /\ ~exists(get_cache_path(md5("B_7"), FlowExt))

\* C25: a request that refreshes last_active_time after monitor_loop read
\* a stale value wins: whenever unload_model called by the monitor drops
\* the instance, the idle time still exceeds idle_timeout.
C25_SweepDropsOnlyWhenIdle ==
    [][ (pc[Monitor] = "unloading" /\ model # None /\ model' = None)
          => IdleExpired ]_vars

\* A step in which request t enters load_model_if_needed, and one in which
\* it refreshes the time after a generate that succeeded.
EntersAcquire(t) == pc[t] = "idle" /\ pc'[t] = "fast_check"
RefreshesAfterGenerate(t) == pc[t] = "refresh" /\ pc'[t] = "done"

\* C26 as claimed: last_active_time is the time of the last successful
\* acquisition: while no acquisition has succeeded and no request is under
\* way it has its initial value, and the refresh after generate leaves it
\* as it is.
C26_OnlySuccessfulAcquire ==
    [][ /\ (constructed' = 0 /\ \A t \in Threads : pc'[t] \in {"idle", "done"})
           => last_active_time' = 0
        /\ \A t \in Threads :
              RefreshesAfterGenerate(t) => last_active_time' = last_active_time
      ]_vars

\* C26 as amended: last_active_time is set to the current time by every
\* entry into load_model_if_needed, whether the acquisition then succeeds
\* or fails, and by the refresh after a generate that succeeded, and by
\* nothing else.
C26_SetAtAcquireEntryAndRefresh ==
    [][ /\ \A t \in Threads :
              (EntersAcquire(t) \/ RefreshesAfterGenerate(t))
                  => last_active_time' = now
        /\ last_active_time' # last_active_time
             => \E t \in Threads :
                    EntersAcquire(t) \/ RefreshesAfterGenerate(t) ]_vars

\* The only request so far entered load_model_if_needed at time 1 and its
\* initialization failed: last_active_time is 1 and nothing was loaded.
C26_Witness ==
    \E t \in Threads :
        /\ pc[t] = "done" /\ result[t] = "load_failed"
        /\ \A u \in Threads \ {t} : pc[u] = "idle"
        /\ constructed = 0
        /\ last_active_time = 1

\* C27: the sweep and the lookups apply one threshold: the sweep decides
\* to delete a file, media or transcript, exactly when the age it computes
\* exceeds cache_days days in seconds, and a lookup of either kind treats
\* a file as expired exactly when the age it computes does.
C27_SameThreshold ==
    [][ /\ (sweep.pc = "stat" /\ sweep' # sweep /\ exists(sweep.cur))
           => (sweep'.pc = "unlink"
                 <=> sweep.time - files[sweep.cur].mtime
                        > cache_days * SecondsPerDay)
        /\ \A t \in Threads :
              (/\ pc[t] \in {"gf_stat", "gt_stat"} /\ pc'[t] # pc[t]
               /\ exists(op[t].path))
                 => (pc'[t] \in {"gf_unlink", "gt_unlink"}
                       <=> now - files[op[t].path].mtime
                              > cache_days * SecondsPerDay) ]_vars

\* At one instant the sweep and a lookup have both found the same media
\* file expired and are about to delete it.
C27_Witness ==
    \E t \in Threads :
        /\ sweep.pc = "unlink" /\ sweep.time = now
        /\ pc[t] = "gf_unlink" /\ op[t].path = sweep.cur
        /\ exists(sweep.cur)

\* The name save_to_cache gives the entry of source src: the fingerprint
\* followed by the source's extension, .mp3 when it has none.
EntryName(key, src) ==
    get_cache_path(key, IF Suffix(src) = "" THEN ".mp3" ELSE Suffix(src))

\* C28: no step of save_to_cache removes or alters a source file, whether
\* the copy succeeds or fails, and the entry it writes and returns is named
\* by the fingerprint and the source's extension.
C28_SourceKeptEntryNamed ==
    [][ \A t \in Threads :
          (pc'[t] # pc[t] /\ op'[t].name = "save_to_cache")
            => /\ \A src \in Sources :
                    /\ SourcePath(src) \in DOMAIN files'
                    /\ files'[SourcePath(src)] = files[SourcePath(src)]
               /\ DOMAIN files' \ DOMAIN files
                    \subseteq {EntryName(md5("B_7"), op'[t].arg)}
               /\ op'[t].ret.kind = "path"
                    => op'[t].ret.path = EntryName(md5("B_7"), op'[t].arg)
      ]_vars

\* A store of the source without extension has returned its entry, named
\* .mp3, and a store of b.m4a has returned the source path after a failed
\* copy; both sources are where they were.
C28_Witness ==
    \E t, u \in Threads :
        /\ pc[t] = "done" /\ op[t].name = "save_to_cache" /\ op[t].arg = "c"
        /\ op[t].ret = ReturnPath(get_cache_path(md5("B_7"), ".mp3"))
        /\ pc[u] = "done" /\ op[u].name = "save_to_cache"
        /\ op[u].ret = ReturnSource("b.m4a")
        /\ \A src \in Sources :
              /\ exists(SourcePath(src))
              /\ files[SourcePath(src)].data = Content(src, 0)

\* C29: when load_model_if_needed raises in a handler, the handler's next
\* step is its error response reporting the model load failure, the request
\* never reaches generate and holds no engine handle, and the manager is not
\* left in Loading: the lock is free and no instance is stored at the
\* moment the error leaves the with block, and the failed request never
\* holds the lock afterwards.
C29_LoadFailureReported ==
    [][ \A t \in Threads :
          /\ (pc'[t] = "load_failed" /\ pc[t] # "load_failed")
               => /\ pc[t] \in {"init", "fallback"}
                  /\ lock' = NoHolder
                  /\ model' = None
          /\ pc[t] = "load_failed"
               => /\ lock # t
                  /\ asr_model[t] = None
                  /\ pc'[t] \in {"load_failed", "done"}
                  /\ pc'[t] = "done" => result'[t] = "load_failed"
          /\ (pc[t] = "done" /\ result[t] = "load_failed")
               => /\ pc'[t] = "done"
                  /\ result'[t] = "load_failed"
                  /\ lock' # t
          /\ pc'[t] = "generating" => pc[t] \in {"ret", "generating"}
      ]_vars

\* One request has answered with the load failure and another one, which
\* took the lock after it, has loaded the engine and answered successfully.
C29_Witness ==
    \E t, u \in Threads :
        /\ pc[t] = "done" /\ result[t] = "load_failed"
        /\ pc[u] = "done" /\ result[u] = "success"
        /\ constructed = 1
        /\ lock = NoHolder

\* Request t has stored a transcript record and request u has looked up the
\* same fingerprint, both calls have returned, no other request has made a
\* cache call, and the record t wrote has not expired.
StoredAndLookedUp(t, u) ==
    /\ t # u
    /\ pc[t] = "done" /\ op[t].name = "save_transcript_to_cache"
    /\ op[t].ret = Stored
    /\ pc[u] = "done" /\ op[u].name = "get_cached_transcript"
    /\ op[u].path = op[t].path
    /\ \A w \in Threads \ {t, u} : pc[w] = "idle"
    /\ now - op[t].stamp <= TTL

\* C30: once a store of a transcript and a lookup of the same fingerprint
\* that may have run concurrently with it have both returned, the unexpired
\* record the store wrote is in the cache, complete, so that the next lookup
\* returns it.
C30_LookupSparesFreshEntry ==
    \A t, u \in Threads :
        StoredAndLookedUp(t, u)
            => /\ exists(op[t].path)
               /\ Whole(files[op[t].path].data)
               /\ files[op[t].path].data[1][1] = op[t].arg
               /\ now - files[op[t].path].mtime <= TTL

\* Request t, in a lookup, has found the entry expired and is about to
\* unlink it, while request u has made or is making a lookup of the same
\* entry; no other request has made a cache call.
BothLookUpExpired(t, u) ==
    /\ t # u
    /\ pc[t] \in {"gf_unlink", "gt_unlink"}
    /\ op[u].name = op[t].name
    /\ op[u].path = op[t].path
    /\ \A w \in Threads \ {t, u} : pc[w] = "idle"

\* C31: when two requests look up the same expired entry concurrently, the
\* one that reaches its unlink returns absent, without an error, and the
\* entry is gone afterwards, whatever the other has done in the meantime.
C31_ConcurrentExpiredLookups ==
    [][ \A t, u \in Threads :
          (BothLookUpExpired(t, u) /\ pc'[t] # pc[t])
            => /\ op'[t].ret = ReturnNone
               /\ op[t].path \notin DOMAIN files'
      ]_vars

\* Process p is inside a call of load_model_if_needed (a request thread) or
\* of unload_model (a request thread or the monitor).
InLoad(t) ==
    pc[t] \in {"fast_check", "wait_lock", "locked_check", "init", "set_device",
               "fallback", "set_cpu", "ret"}
InUnload(p) == pc[p] \in {"unload_wait", "unloading"}

\* C32: every call of load_model_if_needed and of unload_model, by a request
\* thread or by the monitor, eventually returns or raises when every
\* AutoModel call ends; the lock is held only inside a with block, and a
\* process that waits for the lock does not hold it.
C32_CallsTerminate ==
    /\ \A t \in Threads : InLoad(t) ~> ~InLoad(t)
    /\ \A p \in Procs : InUnload(p) ~> ~InUnload(p)
    /\ [](\A p \in Procs :
             pc[p] \in {"wait_lock", "unload_wait"} => lock # p)
    /\ [](lock # NoHolder => pc[lock] \in LockedSection)

\* The monitor and a request both wait for the lock to unload while another
\* request holds it and initializes the engine.
C32_Witness ==
    \E t \in Threads :
        /\ lock = t /\ pc[t] = "init"
        /\ pc[Monitor] = "unload_wait"
        /\ dropped # {}

\* C33: every transcript store and lookup made with a primary id alone
\* addresses the entry of the key md5(""), whichever primary id it carries,
\* and the cache never holds a second transcript entry: the record a lookup
\* returns is the one the last store left there, for whichever video.
C33_BareIdsShareOneEntry ==
    /\ \A t \in Threads :
          op[t].name # "none"
            => /\ op[t].bvid \in {"B", "C"}
               /\ op[t].path = transcript_path(md5(""))
    /\ {p \in DOMAIN files : p[1] = "transcripts"}
          \subseteq {transcript_path(md5(""))}
    /\ \A u \in Threads :
          (pc[u] = "done" /\ op[u].ret.kind = "record")
            => \E t \in Threads \ {u} :
                  /\ op[t].name = "save_transcript_to_cache"
                  /\ op[t].arg = op[u].ret.name

\* A request for video B has stored its record, and the lookup of a request
\* for video C has returned that record.
C33_Witness ==
    \E t, u \in Threads :
        /\ pc[t] = "done" /\ op[t].name = "save_transcript_to_cache"
        /\ op[t].bvid = "B" /\ op[t].ret = Stored /\ op[t].arg = "long"
        /\ pc[u] = "done" /\ op[u].name = "get_cached_transcript"
        /\ op[u].bvid = "C"
        /\ op[u].ret = ReturnRecord("long", op[u].ret.stamp)

\* C34: a stored instance is dropped only by a step of unload_model made by
\* the monitor or by a request whose generate raised out of memory; a
\* request whose generate raised another error goes to its error response
\* without calling unload_model, and neither step changes manager.model.
C34_OnlySweepAndForcedUnloadDrop ==
    [][ /\ (model # None /\ model' # model)
             => /\ model' = None
                /\ \E p \in Procs :
                      /\ pc[p] = "unloading" /\ pc'[p] # pc[p]
                      /\ p = Monitor \/ last_error[p] = "oom"
        /\ \A t \in Threads :
             /\ (pc[t] = "generating" /\ last_error'[t] = "other")
                  => /\ pc'[t] = "error_return"
                     /\ model' = model
             /\ (/\ pc[t] = "error_return" /\ last_error[t] = "other"
                 /\ pc'[t] # pc[t])
                  => /\ pc'[t] = "done"
                     /\ result'[t] = "error"
                     /\ model' = model
      ]_vars

\* A request has answered with an error while the one instance ever
\* constructed is still loaded, nothing having been dropped.
C34_Witness ==
    \E t \in Threads :
        /\ pc[t] = "done" /\ result[t] = "error"
        /\ Loaded /\ constructed = 1 /\ dropped = {}

\* C35: a step of unload_model on an Unloaded manager changes nothing but
\* the lock it releases; a step on a Loaded manager drops the stored
\* instance, which was not dropped before, and nothing else; after either
\* the manager is Unloaded.  So of two callers at the same time the first
\* drops the instance and the second drops nothing.
C35_UnloadIdempotent ==
    [][ \A p \in Procs :
          (pc[p] = "unloading" /\ pc'[p] # pc[p])
            => /\ lock = p /\ lock' = NoHolder
               /\ model' = None
               /\ <<last_active_time, device, constructed>>'
                     = <<last_active_time, device, constructed>>
               /\ IF model = None
                    THEN dropped' = dropped /\ swept' = swept
                    ELSE /\ model \notin dropped
                         /\ dropped' = dropped \cup {model}
      ]_vars

\* The monitor, which found the engine loaded and idle, is inside
\* unload_model after a request's forced unload has already dropped the
\* only instance.
C35_Witness ==
    /\ pc[Monitor] = "unloading" /\ lock = Monitor
    /\ model = None
    /\ constructed = 1 /\ dropped = {1} /\ swept = {}
    /\ \E t \in Threads : pc[t] \in {"error_return", "done"} /\ made[t] = None

\* A loader inside the locked section has stored the new instance and not
\* yet the device: the manager is still Loading.
Storing == lock \in Threads /\ pc[lock] \in {"set_device", "set_cpu"}

CacheOf(f) ==
    [p \in {q \in DOMAIN f : q[1] \in {"cache", "transcripts"}} |-> f[p]]

\* C37 as claimed: every step a request takes up to the outcome of its
\* download, and the step that returns failure, leaves the cache contents as
\* they are, so that the cache after a failed request is the cache before
\* it.
C37_FailureLeavesCacheAsBefore ==
    [][ \A t \in Threads :
          (/\ pc'[t] # pc[t]
           /\ \/ pc[t] \in {"idle", "gf_stat", "gf_unlink"}
              \/ pc'[t] = "flow_done" /\ op'[t].ret.kind = "error")
            => CacheOf(files') = CacheOf(files)
      ]_vars

\* C37 as amended: the flow returns failure only from before its lookup or
\* right after it, never after a call of save_to_cache, and the returning
\* step changes no file; no step of a request up to there creates or
\* modifies a cache entry, and the only entry such a step removes is the one
\* its own lookup found expired.
C37_FailureStoresNothing ==
    [][ \A t \in Threads :
          /\ (/\ pc'[t] = "flow_done" /\ pc[t] # "flow_done"
              /\ op'[t].ret.kind = "error")
               => /\ \/ pc[t] = "idle"
                     \/ pc[t] = "done" /\ op[t].name = "get_cached_file"
                  /\ files' = files
          /\ (pc'[t] # pc[t] /\ pc[t] \in {"idle", "gf_stat", "gf_unlink"})
               => /\ \A p \in DOMAIN CacheOf(files') :
                        p \in DOMAIN files /\ files'[p] = files[p]
                  /\ \A p \in DOMAIN CacheOf(files) \ DOMAIN files' :
                        pc[t] = "gf_unlink" /\ p = op[t].path
      ]_vars

\* One request missed and its download failed; the other, which missed too,
\* has downloaded, stored and returned the entry, which is in the cache.
C37_Witness ==
    \E t, u \in Threads :
        /\ pc[t] = "flow_done"
        /\ op[t].ret = ReturnError("download failed")
        /\ pc[u] = "flow_done"
        /\ op[u].ret = ReturnPath(get_cache_path(md5("B_7"), FlowExt))
        /\ exists(get_cache_path(md5("B_7"), FlowExt))
        /\ files[get_cache_path(md5("B_7"), FlowExt)].mtime > 0

\* C38: no step of a lookup other than the unlink of an expired or
\* unreadable entry changes any file, so a lookup that returns a hit leaves
\* the entry, its content and its modification time as they were; a hit
\* returns the entry the lookup addressed.
C38_HitReadOnly ==
    [][ \A t \in Threads :
          /\ (/\ pc'[t] # pc[t]
              /\ op'[t].name \in {"get_cached_file", "get_cached_transcript"}
              /\ pc[t] \in {"idle", "gf_stat", "gt_stat", "gt_load"})
               => files' = files
          /\ (pc'[t] # pc[t] /\ op'[t].ret.kind = "path"
              /\ op'[t].name = "get_cached_file")
               => /\ op'[t].ret.path = op[t].path
                  /\ exists(op[t].path)
                  /\ now - files'[op[t].path].mtime <= TTL
          /\ (pc'[t] # pc[t] /\ op'[t].ret.kind = "record")
               => /\ exists(op[t].path)
                  /\ files'[op[t].path].data
                        = Content(op'[t].ret.name, op'[t].ret.stamp)
      ]_vars

\* Two requests in turn have had a hit on the media entry of an earlier
\* run, the second at the last moment of the entry's life, and the entry
\* still carries the modification time it had at the start.
C38_Witness ==
    \E t, u \in Threads :
        /\ t # u
        /\ pc[t] = "done" /\ pc[u] = "done"
        /\ op[t].name = "get_cached_file" /\ op[u].name = "get_cached_file"
        /\ op[t].ret = ReturnPath(get_cache_path(md5("B_7"), ".mp3"))
        /\ op[u].ret = op[t].ret
        /\ cache_days = 1 /\ now = TTL
        /\ files = Downloads @@ OldMedia

\* The handler of request t has returned its response or has been left by
\* an exception.
HandlerReturned(t) ==
    \/ pc[t] = "responded"
    \/ pc[t] = "done" /\ result[t] = "load_failed"

\* C39: no temporary file exists for a request before its model load has
\* returned, so none is created when the load fails; and once the handler
\* of a request has returned, by whichever exit, its temporary file does
\* not exist.
C39_TempFileRemoved ==
    \A t \in Threads :
        /\ pc[t] \notin {"generating", "refresh", "unload_wait", "unloading",
                         "error_return", "done", "responded"}
             => ~exists(TempPath(t))
        /\ HandlerReturned(t) => ~exists(TempPath(t))

====
